---------------------------- MODULE Spec2Model ----------------------------
(***************************************************************************)
(* Model of the radiation-hardened firmware (rad_fw) and the parts of the  *)
(* executive (rad_exec) that act on its state.                             *)
(*                                                                         *)
(* Two specifications are defined:                                         *)
(*   SpecDatum  one protected datum (U64 or Bytes<N>) under corruption,    *)
(*              get, repair and update;                                    *)
(*   Spec       the firmware process: main loop, control requests,         *)
(*              module execution, fault injection, checkpoint, restart.    *)
(*                                                                         *)
(* Scaling.  A byte is a byte (0..255) and the Reed-Solomon code is the    *)
(* real one over GF(2^8); what is scaled is the number of bytes: a U64     *)
(* shard has U64_SHARD bytes (4 in the source), a Bytes<N> shard has       *)
(* BYTES_N bytes (128 in the source), and so on.                           *)
(*                                                                         *)
(* The 64-bit keyed hash (seahash) is idealised as collision free: a       *)
(* digest is the pair of the hashed bytes and the set of digest bits that  *)
(* were flipped afterwards; two digests are equal iff both parts are.      *)
(***************************************************************************)
EXTENDS Integers, Sequences, FiniteSets, TLC

(***************************************************************************)
(* Bounds of the model                                                     *)
(***************************************************************************)
\* bytes per U64 shard (4 in data.rs: data: [[u8; 4]; 3])
U64_SHARD == 1
\* bytes per Bytes<N> shard (N = MAX_MESSAGE_SIZE / 2 = 128 in data.rs)
BYTES_N == 1
\* bit flips injected into the datum of SpecDatum between two updates
MaxFlips == 2

Byte == 0..255

\* bit positions of a byte that a fault may flip
FlipBits == {0, 7}
\* bit positions of a 64-bit checksum that a fault may flip
ChecksumBits == {0, 63}

(***************************************************************************)
(* Bit and byte arithmetic                                                 *)
(***************************************************************************)
RECURSIVE Pow2(_)
Pow2(n) == IF n = 0 THEN 1 ELSE 2 * Pow2(n - 1)

RECURSIVE Xor(_, _)
Xor(a, b) ==
    IF a = 0 THEN b
    ELSE IF b = 0 THEN a
    ELSE ((a + b) % 2) + 2 * Xor(a \div 2, b \div 2)

\* x ^= 1 << bit   (monitor.rs: x[0] ^= 1 << fault_bit)
FlipBit(x, bit) == Xor(x, Pow2(bit))

\* the sequence s with bit `bit` of its k-th byte flipped
FlipByteOf(s, k, bit) == [s EXCEPT ![k] = FlipBit(s[k], bit)]

Zeros(n) == [k \in 1..n |-> 0]

\* u64::to_be_bytes, on n bytes
RECURSIVE to_be_bytes(_, _)
to_be_bytes(v, n) ==
    IF n = 0 THEN << >> ELSE to_be_bytes(v \div 256, n - 1) \o <<v % 256>>

\* u64::from_be_bytes
RECURSIVE from_be_bytes(_)
from_be_bytes(s) ==
    IF Len(s) = 0 THEN 0
    ELSE 256 * from_be_bytes(SubSeq(s, 1, Len(s) - 1)) + s[Len(s)]

(***************************************************************************)
(* Reed-Solomon(2,1) over GF(2^8), generating polynomial 0x11d.            *)
(* The encoding matrix of ReedSolomon::new(2, 1) is the Vandermonde matrix *)
(* of 3 rows normalised to a systematic code: rows (1 0), (0 1), (3 2).    *)
(***************************************************************************)
Mul2(a) == IF 2 * a >= 256 THEN Xor(2 * a - 256, 29) ELSE 2 * a
Mul3(a) == Xor(Mul2(a), a)
Inv2 == [y \in Byte |-> CHOOSE z \in Byte : Mul2(z) = y]
Inv3 == [y \in Byte |-> CHOOSE z \in Byte : Mul3(z) = y]

\* parity shard of two data shards
Parity(s0, s1) == [k \in 1..Len(s0) |-> Xor(Mul3(s0[k]), Mul2(s1[k]))]

\* ENCODER.encode(&mut data): the parity shard is recomputed from the data shards
encode(data) == <<data[1], data[2], Parity(data[1], data[2])>>

\* ENCODER.reconstruct(&mut shards) with shards[i] = None (i in 1..3 here)
reconstruct(data, i) ==
    IF i = 1 THEN
        <<[k \in 1..Len(data[2]) |-> Inv3[Xor(data[3][k], Mul2(data[2][k]))]],
          data[2], data[3]>>
    ELSE IF i = 2 THEN
        <<data[1],
          [k \in 1..Len(data[1]) |-> Inv2[Xor(data[3][k], Mul3(data[1][k]))]],
          data[3]>>
    ELSE <<data[1], data[2], Parity(data[1], data[2])>>

(***************************************************************************)
(* Keyed hash                                                              *)
(***************************************************************************)
\* hash(data): digest of a byte string
hash(bytes) == [pre |-> bytes, flip |-> {}]

\* hasher(): write shard 0, 1, 2, then finish
hasher(data) == hash(data[1] \o data[2] \o data[3])

\* a digest with one bit flipped
FlipDigest(c, bit) ==
    [c EXCEPT !.flip = IF bit \in c.flip THEN c.flip \ {bit} ELSE c.flip \cup {bit}]

\* results carry an optional value: Some(v) is <<v>>, None is << >>
NoValue == << >>
Some(v) == <<v>>

(***************************************************************************)
(* U64: critical u64                                                       *)
(***************************************************************************)
U64_verify(d) == d.checksum = hasher(d.data)

\* U64_update with the checksum taken before the parity is re-encoded
U64_update_stale(d, v) ==
    LET b == to_be_bytes(v, 2 * U64_SHARD)
        data == <<SubSeq(b, 1, U64_SHARD), SubSeq(b, U64_SHARD + 1, 2 * U64_SHARD),
                  d.data[3]>>
    IN [data |-> encode(data), checksum |-> hasher(data)]

U64_update(d, v) ==
    LET split(b) == <<SubSeq(b, 1, U64_SHARD), SubSeq(b, U64_SHARD + 1, 2 * U64_SHARD),
                      d.data[3]>>
        sealed(data) == [data |-> data, checksum |-> hasher(data)]
    IN sealed(encode(split(to_be_bytes(v, 2 * U64_SHARD))))

U64_new(v) ==
    U64_update([data |-> <<Zeros(U64_SHARD), Zeros(U64_SHARD), Zeros(U64_SHARD)>>,
                checksum |-> hash(<< >>)], v)

\* U64_repair that adopts the first reconstruction without checking it
U64_repair_unchecked(d) == [ok |-> TRUE, d |-> [d EXCEPT !.data = reconstruct(d.data, 1)]]

\* repair: every attempt starts from the shards as they were on entry (`data`);
\* on failure self.data is left at the last reconstruction
U64_repair(d) ==
    LET first(try) ==
            IF U64_verify(try[1]) THEN [ok |-> TRUE, d |-> try[1]]
            ELSE IF U64_verify(try[2]) THEN [ok |-> TRUE, d |-> try[2]]
            ELSE IF U64_verify(try[3]) THEN [ok |-> TRUE, d |-> try[3]]
            ELSE [ok |-> FALSE, d |-> try[3]]
    IN first([i \in 1..3 |-> [d EXCEPT !.data = reconstruct(d.data, i)]])

\* U64_get that reads the shards without verifying them
U64_get_unverified(d) ==
    [ok |-> TRUE, val |-> Some(from_be_bytes(d.data[1] \o d.data[2])), d |-> d]

U64_get(d) ==
    LET read(r) ==
            [ok |-> r.ok,
             val |-> IF r.ok THEN Some(from_be_bytes(r.d.data[1] \o r.d.data[2]))
                     ELSE NoValue,
             d |-> r.d]
    IN read(IF U64_verify(d) THEN [ok |-> TRUE, d |-> d] ELSE U64_repair(d))

\* increment: update(get()? + n)
U64_increment(d, n) ==
    LET add(g) == IF g.ok THEN [ok |-> TRUE, d |-> U64_update(g.d, g.val[1] + n)]
                  ELSE [ok |-> FALSE, d |-> g.d]
    IN add(U64_get(d))

(***************************************************************************)
(* Bytes<N>: critical bytes; the logical value has 2 * n bytes             *)
(***************************************************************************)
Bytes_verify(d) == d.checksum = hasher(d.data)

\* update fails (and changes nothing) unless data.len() = N * 2
Bytes_update(d, n, v) ==
    IF Len(v) # 2 * n THEN [ok |-> FALSE, d |-> d]
    ELSE LET sealed(data) == [data |-> data, checksum |-> hasher(data)]
         IN [ok |-> TRUE,
             d |-> sealed(encode(<<SubSeq(v, 1, n), SubSeq(v, n + 1, 2 * n), d.data[3]>>))]

Bytes_new(n, v) ==
    Bytes_update([data |-> <<Zeros(n), Zeros(n), Zeros(n)>>,
                  checksum |-> hash(<< >>)], n, v).d

Bytes_repair(d) ==
    LET first(try) ==
            IF Bytes_verify(try[1]) THEN [ok |-> TRUE, d |-> try[1]]
            ELSE IF Bytes_verify(try[2]) THEN [ok |-> TRUE, d |-> try[2]]
            ELSE IF Bytes_verify(try[3]) THEN [ok |-> TRUE, d |-> try[3]]
            ELSE [ok |-> FALSE, d |-> try[3]]
    IN first([i \in 1..3 |-> [d EXCEPT !.data = reconstruct(d.data, i)]])

\* get into a buffer of 2 * n bytes
Bytes_get(d) ==
    LET read(r) ==
            [ok |-> r.ok,
             val |-> IF r.ok THEN Some(r.d.data[1] \o r.d.data[2]) ELSE NoValue,
             d |-> r.d]
    IN read(IF Bytes_verify(d) THEN [ok |-> TRUE, d |-> d] ELSE Bytes_repair(d))


(***************************************************************************)
(* Sizes of the firmware state (scaled; the source's values in brackets)   *)
(***************************************************************************)
\* modules in State [4]
NUM_MODULES == 2
\* events in State [32]
NUM_EVENTS == 2
\* bytes per shard of an event message, MAX_MESSAGE_SIZE / 2 [128]
MSG_N == 30
MAX_MESSAGE_SIZE == 2 * MSG_N
\* bytes of a module signature [64]
SIGNATURE_SIZE == 1
\* bytes of one instruction of the module bytecode: opcode, register, operand [8]
INSN_SIZE == 3
\* bytes of an encoded module that decode to one byte [8]
DECODE_WINDOW == 3
\* instructions an encoded module of full size decodes to [64]
MaxEncInsns == 2
\* MAX_MODULE_SIZE [2^12]
MAX_MODULE_SIZE == INSN_SIZE * DECODE_WINDOW * MaxEncInsns
\* bytes of VM memory handed to a module [1024]
MEM_SIZE == 24
MODULE_UPDATE_THRESHOLD == 300
\* instruction meter of one VM run
METER_START == 1024

ModuleIds == 0..(NUM_MODULES - 1)
EventIds == 0..(NUM_EVENTS - 1)

(***************************************************************************)
(* Strings are sequences of ASCII codes                                    *)
(***************************************************************************)
STR_module == <<109, 111, 100, 117, 108, 101, 32>>
STR_result == <<32, 114, 101, 115, 117, 108, 116, 58, 32>>
STR_exec_error == <<32, 101, 120, 101, 99, 32, 101, 114, 114, 111, 114, 58, 32>>
STR_VM_error == <<86, 77, 32, 101, 114, 114, 111, 114>>
STR_repair_error ==
    <<114, 101, 112, 97, 105, 114, 32, 101, 114, 114, 111, 114, 58, 32, 117, 110, 97,
      98, 108, 101, 32, 116, 111, 32, 114, 101, 112, 97, 105, 114, 32, 117, 54, 52>>
STR_enable_module == <<101, 110, 97, 98, 108, 101, 32, 109, 111, 100, 117, 108, 101, 32>>
STR_update_module == <<117, 112, 100, 97, 116, 101, 32, 109, 111, 100, 117, 108, 101, 32>>
STR_success == <<58, 32, 115, 117, 99, 99, 101, 115, 115>>
STR_failure == <<58, 32, 102, 97, 105, 108, 117, 114, 101>>

\* "{}" of a small unsigned number
RECURSIVE Decimal(_)
Decimal(n) == IF n < 10 THEN <<48 + n>> ELSE Decimal(n \div 10) \o <<48 + (n % 10)>>

HexDigit(n) == IF n < 10 THEN 48 + n ELSE 87 + n

\* hex::encode
RECURSIVE hex_encode(_)
hex_encode(s) ==
    IF Len(s) = 0 THEN << >>
    ELSE <<HexDigit(s[1] \div 16), HexDigit(s[1] % 16)>> \o hex_encode(Tail(s))

\* does the string s contain the string t
Contains(s, t) ==
    \E k \in 0..(Len(s) - Len(t)) : SubSeq(s, k + 1, k + Len(t)) = t

\* String::from_utf8: is the byte string well-formed UTF-8
RECURSIVE ValidUtf8(_)
ValidUtf8(s) ==
    IF s = << >> THEN TRUE
    ELSE LET continued(n, lo, hi) ==
                 /\ Len(s) > n
                 /\ s[2] \in lo..hi
                 /\ \A k \in 3..(n + 1) : s[k] \in 128..191
                 /\ ValidUtf8(SubSeq(s, n + 2, Len(s)))
         IN IF s[1] < 128 THEN ValidUtf8(Tail(s))
            ELSE IF s[1] \in 194..223 THEN continued(1, 128, 191)
            ELSE IF s[1] = 224 THEN continued(2, 160, 191)
            ELSE IF s[1] \in (225..236) \cup (238..239) THEN continued(2, 128, 191)
            ELSE IF s[1] = 237 THEN continued(2, 128, 159)
            ELSE IF s[1] = 240 THEN continued(3, 144, 191)
            ELSE IF s[1] \in 241..243 THEN continued(3, 128, 191)
            ELSE IF s[1] = 244 THEN continued(3, 128, 143)
            ELSE FALSE

(***************************************************************************)
(* Event: critical event                                                   *)
(***************************************************************************)
Event_new ==
    [timestamp |-> U64_new(0),
     message |-> Bytes_new(MSG_N, Zeros(MAX_MESSAGE_SIZE))]

\* update: the timestamp is written first; a message of the wrong size fails
\* after that
Event_update(e, timestamp, message) ==
    LET stamped(m) ==
            [ok |-> m.ok,
             e |-> [timestamp |-> U64_update(e.timestamp, timestamp), message |-> m.d]]
    IN stamped(Bytes_update(e.message, MSG_N, message))

\* get: the timestamp, then the message into the caller's buffer:
\* [ok, timestamp, message, e]
Event_get(e) ==
    LET both(t, m) ==
            [ok |-> m.ok, timestamp |-> t.val, message |-> m.val,
             e |-> [timestamp |-> t.d, message |-> m.d]]
        after(t) ==
            IF ~t.ok
            THEN [ok |-> FALSE, timestamp |-> NoValue, message |-> NoValue,
                  e |-> [e EXCEPT !.timestamp = t.d]]
            ELSE both(t, Bytes_get(e.message))
    IN after(U64_get(e.timestamp))

Event_verify(e) == U64_verify(e.timestamp) /\ Bytes_verify(e.message)

Event_repair(e) ==
    LET both(t, m) == [ok |-> m.ok, d |-> [timestamp |-> t.d, message |-> m.d]]
        after(t) == IF ~t.ok THEN [ok |-> FALSE, d |-> [e EXCEPT !.timestamp = t.d]]
                    ELSE both(t, Bytes_repair(e.message))
    IN after(U64_repair(e.timestamp))

(***************************************************************************)
(* Module VM.  The eBPF interpreter (solana_rbpf) is reduced to the         *)
(* instructions the modules of this model use; an instruction is           *)
(* <<opcode, register, operand>>.                                          *)
(***************************************************************************)
OP_LDDW == 24       \* 0x18  lddw reg, imm
OP_MOV == 183       \* 0xb7  mov reg, imm
OP_CALL == 133      \* 0x85  call imm
OP_EXIT == 149      \* 0x95  exit
OP_JA == 5          \* 0x05  ja +off (the operand is the signed offset)
SYSCALL_FILE_READ == 23
SYSCALL_SEND_MESSAGE == 46

\* the file the challenge protects, and its content
STR_FLAG_PATH == <<46, 46, 47, 70, 76, 65, 71>>       \* "../FLAG"
STR_rad == <<114, 97, 100>>                            \* "rad"
FLAG == <<70>>

\* the lddw operands of this model: 1 loads the 8 bytes "../FLAG\0", 2 loads
\* "rad\0\0\0\0\0", 3 loads 8 bytes 0xff; any other operand loads 8 zero bytes
PathBytes(imm) ==
    IF imm = 1 THEN STR_FLAG_PATH \o <<0>>
    ELSE IF imm = 2 THEN STR_rad \o Zeros(5)
    ELSE IF imm = 3 THEN [k \in 1..8 |-> 255]
    ELSE Zeros(8)

\* std::fs::read_to_string, with two readable files: ../FLAG and rad
ReadToString(path) ==
    IF path = STR_FLAG_PATH THEN Some(FLAG)
    ELSE IF path = STR_rad THEN Some(<<127>>)
    ELSE NoValue

\* FileRead::call without the test for "rad"
file_read_nofilter(path, path_size, store_addr, mem) ==
    LET truncate(b) == IF path_size < 8 THEN SubSeq(b, 1, path_size) ELSE b
        store(path_bytes, data) ==
            IF data = NoValue
            THEN [ok |-> TRUE, ret |-> 0, mem |-> mem, opened |-> Some(path_bytes)]
            ELSE IF store_addr + Len(data[1]) > Len(mem)
            THEN [ok |-> FALSE, ret |-> 0, mem |-> mem, opened |-> Some(path_bytes)]
            ELSE [ok |-> TRUE, ret |-> Len(data[1]),
                  mem |-> [k \in 1..Len(mem) |->
                             IF k > store_addr /\ k <= store_addr + Len(data[1])
                             THEN data[1][k - store_addr] ELSE mem[k]],
                  opened |-> Some(path_bytes)]
        read(path_bytes) ==
            IF ~ValidUtf8(path_bytes)
            THEN [ok |-> TRUE, ret |-> 0, mem |-> mem, opened |-> NoValue]
            ELSE store(path_bytes, ReadToString(path_bytes))
    IN read(truncate(PathBytes(path)))

\* FileRead::call: [ok, ret, mem, opened]; opened is the path given to
\* read_to_string, if any
file_read(path, path_size, store_addr, mem) ==
    LET truncate(b) == IF path_size < 8 THEN SubSeq(b, 1, path_size) ELSE b
        store(path_bytes, data) ==
            IF data = NoValue
            THEN [ok |-> TRUE, ret |-> 0, mem |-> mem, opened |-> Some(path_bytes)]
            ELSE IF store_addr + Len(data[1]) > Len(mem)
            THEN [ok |-> FALSE, ret |-> 0, mem |-> mem, opened |-> Some(path_bytes)]
            ELSE [ok |-> TRUE, ret |-> Len(data[1]),
                  mem |-> [k \in 1..Len(mem) |->
                             IF k > store_addr /\ k <= store_addr + Len(data[1])
                             THEN data[1][k - store_addr] ELSE mem[k]],
                  opened |-> Some(path_bytes)]
        read(path_bytes) ==
            IF ~ValidUtf8(path_bytes) \/ Contains(path_bytes, STR_rad)
            THEN [ok |-> TRUE, ret |-> 0, mem |-> mem, opened |-> NoValue]
            ELSE store(path_bytes, ReadToString(path_bytes))
    IN read(truncate(PathBytes(path)))

\* RadMeter::new with one unit too many
RadMeter_new_overrun == METER_START + 1

\* RadMeter::new: what the meter of a run starts with
RadMeter_new == METER_START

\* one turn of the interpreter loop, with `remaining` units left on the meter:
\* [halt, ok, ret, pc, r, mem, calls, left]; an instruction takes one unit
Execute1(code, pc, r, mem, remaining, calls) ==
    LET halt(ok, ret, m, c, left) ==
            [halt |-> TRUE, ok |-> ok, ret |-> ret, pc |-> pc, r |-> r, mem |-> m,
             calls |-> c, left |-> left]
        next(pc1, r1, m, c) ==
            [halt |-> FALSE, ok |-> TRUE, ret |-> 0, pc |-> pc1, r |-> r1, mem |-> m,
             calls |-> c, left |-> remaining - 1]
    IN IF remaining = 0 \/ pc < 0 \/ (pc + 1) * INSN_SIZE > Len(code)
       THEN halt(FALSE, 0, mem, calls, remaining)
       ELSE LET op == code[pc * INSN_SIZE + 1]
                reg == code[pc * INSN_SIZE + 2]
                imm == code[pc * INSN_SIZE + 3]
            IN IF op = OP_EXIT
               THEN halt(TRUE, r[0], mem, calls, remaining - 1)
               ELSE IF op \in {OP_MOV, OP_LDDW} /\ reg \in DOMAIN r
               THEN next(pc + 1, [r EXCEPT ![reg] = imm], mem, calls)
               ELSE IF op = OP_JA
               THEN next(pc + 1 + (IF imm >= 128 THEN imm - 256 ELSE imm), r, mem, calls)
               ELSE IF op = OP_CALL /\ imm = SYSCALL_FILE_READ
               THEN LET return(c) ==
                            IF c.ok
                            THEN next(pc + 1, [r EXCEPT ![0] = c.ret], c.mem, calls + 1)
                            ELSE halt(FALSE, 0, c.mem, calls + 1, remaining - 1)
                    IN return(file_read(r[1], r[2], r[3], mem))
               ELSE halt(FALSE, 0, mem, calls, remaining - 1)

\* vm.execute_program_interpreted: [ok, ret, mem, calls, left]
RECURSIVE Interpret(_, _, _, _, _, _)
Interpret(code, pc, r, mem, remaining, calls) ==
    LET turn(c) ==
            IF c.halt
            THEN [ok |-> c.ok, ret |-> c.ret, mem |-> c.mem, calls |-> c.calls,
                  left |-> c.left]
            ELSE Interpret(code, c.pc, c.r, c.mem, c.left, c.calls)
    IN turn(Execute1(code, pc, r, mem, remaining, calls))

\* execute: registry with file_read, memory mapped at 0, a fresh meter
vm_execute(code, memory) ==
    Interpret(code, 0, [i \in 0..3 |-> 0], memory, RadMeter_new, 0)

Bit(x, j) == (x \div Pow2(j)) % 2

\* the compiled-in decoder program: bitwise majority vote over one window
Decoder(w) ==
    LET ones(j) == Cardinality({k \in 1..Len(w) : Bit(w[k], j) = 1})
        bit == [j \in 0..7 |-> IF 2 * ones(j) >= Len(w) THEN Pow2(j) ELSE 0]
        sum(b) == b[0] + b[1] + b[2] + b[3] + b[4] + b[5] + b[6] + b[7]
    IN sum(bit)

\* decode_code: one byte per window
decode_code(encoded_code) ==
    [i \in 1..(Len(encoded_code) \div DECODE_WINDOW) |->
        Decoder(SubSeq(encoded_code, (i - 1) * DECODE_WINDOW + 1, i * DECODE_WINDOW))]

execute_bytes(code, memory, decode) ==
    vm_execute(IF decode THEN decode_code(code) ELSE code, memory)

(***************************************************************************)
(* Module signatures.  Ed25519 is idealised: the holder of the private key *)
(* has signed the images of SIGNED_IMAGES, and a signature verifies iff it *)
(* is the signature of that image.                                         *)
(***************************************************************************)
PadCode(data) == data \o Zeros(MAX_MODULE_SIZE - Len(data))

\* every byte of a program repeated DECODE_WINDOW times (the encoded uplink)
RECURSIVE encode_code(_)
encode_code(code) ==
    IF Len(code) = 0 THEN << >>
    ELSE [k \in 1..DECODE_WINDOW |-> code[1]] \o encode_code(Tail(code))

\* mov r0, 1; exit -- uploaded encoded
IMAGE_STATUS == encode_code(<<OP_MOV, 0, 1, OP_EXIT, 0, 0>>)
\* lddw r1, "../FLAG"; mov r2, 7; call file_read; mov r0, MEM_SIZE; exit
IMAGE_EXPLOIT ==
    <<OP_LDDW, 1, 1, OP_MOV, 2, 7, OP_CALL, 0, SYSCALL_FILE_READ, OP_MOV, 0, MEM_SIZE,
      OP_EXIT, 0, 0>>

SIGNED_IMAGES == <<IMAGE_STATUS>>
SignatureOf(k) == [j \in 1..SIGNATURE_SIZE |-> 170 + k]

\* RAD_PUB_KEY.verify(code, signature).is_ok()
Ed25519_verify(code, signature) ==
    \E k \in 1..Len(SIGNED_IMAGES) :
        code = PadCode(SIGNED_IMAGES[k]) /\ signature = SignatureOf(k)

(***************************************************************************)
(* Module: critical module                                                 *)
(***************************************************************************)
Module_new ==
    [updated |-> U64_new(0), enabled |-> U64_new(0), encoded |-> U64_new(0),
     verified |-> 0,
     signature |-> Zeros(SIGNATURE_SIZE),
     code |-> Zeros(MAX_MODULE_SIZE)]

\* can_update: [ok, val, m]; get() may repair `updated`
can_update(m, now) ==
    LET elapsed(g) ==
            [ok |-> g.ok,
             val |-> g.ok /\ now > g.val[1] /\ now - g.val[1] >= MODULE_UPDATE_THRESHOLD,
             m |-> [m EXCEPT !.updated = g.d]]
    IN elapsed(U64_get(m.updated))

\* Module_update without the two size checks (the slices are cut to size)
Module_update_unchecked(m, now, data, signature) ==
    LET copy(code) ==
            [ok |-> TRUE, checksum |-> hash(code),
             m |-> [m EXCEPT !.updated = U64_update(m.updated, now),
                             !.signature = SubSeq(signature \o Zeros(SIGNATURE_SIZE), 1,
                                                  SIGNATURE_SIZE),
                             !.code = code]]
    IN copy(SubSeq(data \o Zeros(MAX_MODULE_SIZE), 1, MAX_MODULE_SIZE))

\* Module_update that stores the upload as it is, without the zero padding
Module_update_nopad(m, now, data, signature) ==
    IF Len(data) > MAX_MODULE_SIZE \/ Len(signature) # SIGNATURE_SIZE
    THEN [ok |-> FALSE, checksum |-> NoValue, m |-> m]
    ELSE LET copy(code) ==
                 [ok |-> TRUE, checksum |-> hash(code),
                  m |-> [m EXCEPT !.updated = U64_update(m.updated, now),
                                  !.signature = signature,
                                  !.code = code]]
         IN copy(data)

\* update: [ok, checksum, m]
Module_update(m, now, data, signature) ==
    IF Len(data) > MAX_MODULE_SIZE
    THEN [ok |-> FALSE, checksum |-> NoValue, m |-> m]
    ELSE IF Len(signature) # SIGNATURE_SIZE
    THEN [ok |-> FALSE, checksum |-> NoValue, m |-> m]
    ELSE LET copy(code) ==
                 [ok |-> TRUE, checksum |-> hash(code),
                  m |-> [m EXCEPT !.updated = U64_update(m.updated, now),
                                  !.signature = signature,
                                  !.code = code]]
         IN copy(PadCode(data))

\* is_verified that trusts every module
is_verified_always(m) == TRUE

is_verified(m) == m.verified # 0

\* is_encoded / is_enabled: [ok, val, m]
is_encoded(m) ==
    LET flag(g) ==
            [ok |-> g.ok, val |-> g.ok /\ g.val[1] # 0, m |-> [m EXCEPT !.encoded = g.d]]
    IN flag(U64_get(m.encoded))

is_enabled(m) ==
    LET flag(g) ==
            [ok |-> g.ok, val |-> g.ok /\ g.val[1] # 0, m |-> [m EXCEPT !.enabled = g.d]]
    IN flag(U64_get(m.enabled))

set_encoded(m, encoded) ==
    [m EXCEPT !.encoded = U64_update(m.encoded, IF encoded THEN 1 ELSE 0)]

set_enabled(m, enabled) ==
    [m EXCEPT !.enabled = U64_update(m.enabled, IF enabled THEN 1 ELSE 0)]

\* verify_code that accepts every signature
verify_code_always(m) == [val |-> TRUE, m |-> [m EXCEPT !.verified = 1]]

\* verify_code: [val, m]
verify_code(m) ==
    LET store(verified) ==
            [val |-> verified, m |-> [m EXCEPT !.verified = IF verified THEN 1 ELSE 0]]
    IN store(Ed25519_verify(m.code, m.signature))

ExecOk(m, out, ran, calls) ==
    [ok |-> TRUE, out |-> out, err |-> << >>, ran |-> ran, calls |-> calls, m |-> m]
ExecErr(m, err, ran, calls) ==
    [ok |-> FALSE, out |-> << >>, err |-> err, ran |-> ran, calls |-> calls, m |-> m]

\* the VM run of execute: memory of MEM_SIZE zero bytes, truncated to the result
Module_run(m) ==
    LET result(mm, r) ==
            IF ~r.ok THEN ExecErr(mm, STR_VM_error, TRUE, r.calls)
            ELSE ExecOk(mm, SubSeq(r.mem, 1, IF r.ret < MEM_SIZE THEN r.ret ELSE MEM_SIZE),
                        TRUE, r.calls)
        run(dec) ==
            IF ~dec.ok THEN ExecErr(dec.m, STR_repair_error, FALSE, 0)
            ELSE result(dec.m, execute_bytes(dec.m.code, Zeros(MEM_SIZE), dec.val))
    IN run(is_encoded(m))

\* Module_execute that runs every enabled module
Module_execute_unverified(m) ==
    LET gate(en) == IF ~en.ok THEN ExecErr(en.m, STR_repair_error, FALSE, 0)
                    ELSE IF ~en.val THEN ExecOk(en.m, << >>, FALSE, 0)
                    ELSE Module_run(en.m)
    IN gate(is_enabled(m))

\* execute: [ok, out, err, ran, calls, m]; ran and calls record whether the VM
\* was started and how many syscalls it served
Module_execute(m) ==
    IF ~is_verified(m) THEN ExecOk(m, << >>, FALSE, 0)
    ELSE LET gate(en) == IF ~en.ok THEN ExecErr(en.m, STR_repair_error, FALSE, 0)
                         ELSE IF ~en.val THEN ExecOk(en.m, << >>, FALSE, 0)
                         ELSE Module_run(en.m)
         IN gate(is_enabled(m))

Module_verify(m) ==
    U64_verify(m.updated) /\ U64_verify(m.enabled) /\ U64_verify(m.encoded)

\* repair: `updated` is only verified (the result is dropped); `enabled` and
\* `encoded` are repaired
Module_repair(m) ==
    LET both(en, enc) ==
            [ok |-> enc.ok, d |-> [m EXCEPT !.enabled = en.d, !.encoded = enc.d]]
        after(en) == IF ~en.ok THEN [ok |-> FALSE, d |-> [m EXCEPT !.enabled = en.d]]
                     ELSE both(en, U64_repair(m.encoded))
    IN after(U64_repair(m.enabled))

(***************************************************************************)
(* State: the protected state of the firmware                              *)
(***************************************************************************)
State_new ==
    [repairs |-> U64_new(0), restarts |-> U64_new(0), event_index |-> U64_new(0),
     events |-> [i \in EventIds |-> Event_new],
     modules |-> [i \in ModuleIds |-> Module_new]]

\* log: the slot is events[event_index] (0 when the index cannot be read or is
\* past the array); the result of Event::update is dropped, and event_index is
\* left as it is
log(state, now, message) ==
    LET size == IF Len(message) > MAX_MESSAGE_SIZE THEN MAX_MESSAGE_SIZE ELSE Len(message)
        write(s1, index) ==
            IF index \in EventIds
            THEN [s1 EXCEPT !.events[index] =
                      Event_update(s1.events[index], now, SubSeq(message, 1, size)).e]
            ELSE s1
        wrap(idx) == IF idx > NUM_EVENTS THEN 0 ELSE idx
        slot(g) == write([state EXCEPT !.event_index = g.d],
                         wrap(IF g.ok THEN g.val[1] ELSE 0))
    IN slot(U64_get(state.event_index))

\* check!(data, repairs) over the events, in order: [ok, s, n]
RECURSIVE check_events(_, _, _)
check_events(s, i, n) ==
    IF i = NUM_EVENTS THEN [ok |-> TRUE, s |-> s, n |-> n]
    ELSE IF Event_verify(s.events[i]) THEN check_events(s, i + 1, n)
    ELSE LET next(ok, s1) == IF ok THEN check_events(s1, i + 1, n + 1)
                             ELSE [ok |-> FALSE, s |-> s1, n |-> n]
             repaired(r) == next(r.ok, [s EXCEPT !.events[i] = r.d])
         IN repaired(Event_repair(s.events[i]))

\* check!(data, repairs) over the modules, in order: [ok, s, n]
RECURSIVE check_modules(_, _, _)
check_modules(s, i, n) ==
    IF i = NUM_MODULES THEN [ok |-> TRUE, s |-> s, n |-> n]
    ELSE IF Module_verify(s.modules[i]) THEN check_modules(s, i + 1, n)
    ELSE LET next(ok, s1) == IF ok THEN check_modules(s1, i + 1, n + 1)
                             ELSE [ok |-> FALSE, s |-> s1, n |-> n]
             repaired(r) == next(r.ok, [s EXCEPT !.modules[i] = r.d])
         IN repaired(Module_repair(s.modules[i]))

\* check!(data, repairs) on one U64: [ok, d, n]
check_U64(d, n) ==
    LET counted(r) == [ok |-> r.ok, d |-> r.d, n |-> n + 1]
    IN IF U64_verify(d) THEN [ok |-> TRUE, d |-> d, n |-> n] ELSE counted(U64_repair(d))

\* check_state: [ok, s]; on an unrepairable datum the pass stops there
check_state(state) ==
    LET fail(s) == [ok |-> FALSE, s |-> s]
        count(s, inc) == [ok |-> inc.ok, s |-> [s EXCEPT !.repairs = inc.d]]
        modules_done(cm) ==
            IF ~cm.ok THEN fail(cm.s) ELSE count(cm.s, U64_increment(cm.s.repairs, cm.n))
        events_done(ce) ==
            IF ~ce.ok THEN fail(ce.s) ELSE modules_done(check_modules(ce.s, 0, ce.n))
        index_done(s, c) ==
            IF ~c.ok THEN fail(s) ELSE events_done(check_events(s, 0, c.n))
        index(s, c) == index_done([s EXCEPT !.event_index = c.d], c)
        restarts_done(s, c) ==
            IF ~c.ok THEN fail(s) ELSE index(s, check_U64(s.event_index, c.n))
        restarts(s, c) == restarts_done([s EXCEPT !.restarts = c.d], c)
        repairs_done(s, c) ==
            IF ~c.ok THEN fail(s) ELSE restarts(s, check_U64(s.restarts, c.n))
        repairs(c) == repairs_done([state EXCEPT !.repairs = c.d], c)
    IN repairs(check_U64(state.repairs, 0))

(***************************************************************************)
(* Checkpoints: bincode of State.  A checkpoint is a sequence of tokens: a  *)
(* byte is a token, and a 64-bit checksum is one token (the digest).       *)
(***************************************************************************)
RECURSIVE to_le_bytes(_, _)
to_le_bytes(v, n) == IF n = 0 THEN << >> ELSE <<v % 256>> \o to_le_bytes(v \div 256, n - 1)

RECURSIVE from_le_bytes(_)
from_le_bytes(s) == IF Len(s) = 0 THEN 0 ELSE s[1] + 256 * from_le_bytes(Tail(s))

ser_U64(d) == d.data[1] \o d.data[2] \o d.data[3] \o <<d.checksum>>

\* Bytes<N>: n, then data as a length-prefixed byte vector, then the checksum
ser_Bytes(d, n) ==
    to_le_bytes(n, 8) \o to_le_bytes(3 * n, 8)
        \o d.data[1] \o d.data[2] \o d.data[3] \o <<d.checksum>>

ser_Event(e) == ser_U64(e.timestamp) \o ser_Bytes(e.message, MSG_N)

ser_Module(m) ==
    ser_U64(m.updated) \o ser_U64(m.enabled) \o ser_U64(m.encoded)
        \o to_le_bytes(m.verified, 8) \o m.signature \o m.code

RECURSIVE ser_Events(_, _)
ser_Events(s, i) ==
    IF i = NUM_EVENTS THEN << >> ELSE ser_Event(s.events[i]) \o ser_Events(s, i + 1)

RECURSIVE ser_Modules(_, _)
ser_Modules(s, i) ==
    IF i = NUM_MODULES THEN << >> ELSE ser_Module(s.modules[i]) \o ser_Modules(s, i + 1)

\* bincode::serialize(state)
serialize(s) ==
    ser_U64(s.repairs) \o ser_U64(s.restarts) \o ser_U64(s.event_index)
        \o ser_Events(s, 0) \o ser_Modules(s, 0)

\* readers: [ok, val, pos]; pos is the next token to read
DeFail(pos) == [ok |-> FALSE, val |-> NoValue, pos |-> pos]

Take(buf, pos, n) ==
    IF pos + n - 1 <= Len(buf)
    THEN [ok |-> TRUE, val |-> SubSeq(buf, pos, pos + n - 1), pos |-> pos + n]
    ELSE DeFail(pos)

de_U64(buf, pos) ==
    LET shards(t) ==
            IF ~t.ok THEN t
            ELSE [ok |-> TRUE, pos |-> t.pos,
                  val |-> [data |-> <<SubSeq(t.val, 1, U64_SHARD),
                                      SubSeq(t.val, U64_SHARD + 1, 2 * U64_SHARD),
                                      SubSeq(t.val, 2 * U64_SHARD + 1, 3 * U64_SHARD)>>,
                           checksum |-> t.val[3 * U64_SHARD + 1]]]
    IN shards(Take(buf, pos, 3 * U64_SHARD + 1))

\* Bytes<N>: fails unless data.len() = n * 3 (and the shards have N bytes)
de_Bytes(buf, pos, N) ==
    LET shards(t, n, len) ==
            IF ~t.ok THEN t
            ELSE IF len # n * 3 \/ n # N THEN DeFail(pos)
            ELSE [ok |-> TRUE, pos |-> t.pos,
                  val |-> [data |-> <<SubSeq(t.val, 1, N), SubSeq(t.val, N + 1, 2 * N),
                                      SubSeq(t.val, 2 * N + 1, 3 * N)>>,
                           checksum |-> t.val[len + 1]]]
        vector(hd, n, len) == shards(Take(buf, hd.pos, len + 1), n, len)
        header(hd) ==
            IF ~hd.ok THEN hd
            ELSE vector(hd, from_le_bytes(SubSeq(hd.val, 1, 8)),
                        from_le_bytes(SubSeq(hd.val, 9, 16)))
    IN header(Take(buf, pos, 16))

de_Event(buf, pos) ==
    LET both(t, m) ==
            IF ~m.ok THEN m
            ELSE [ok |-> TRUE, pos |-> m.pos,
                  val |-> [timestamp |-> t.val, message |-> m.val]]
        after(t) == IF ~t.ok THEN t ELSE both(t, de_Bytes(buf, t.pos, MSG_N))
    IN after(de_U64(buf, pos))

de_Module(buf, pos) ==
    LET all(up, en, enc, rest) ==
            IF ~rest.ok THEN rest
            ELSE [ok |-> TRUE, pos |-> rest.pos,
                  val |-> [updated |-> up.val, enabled |-> en.val, encoded |-> enc.val,
                           verified |-> from_le_bytes(SubSeq(rest.val, 1, 8)),
                           signature |-> SubSeq(rest.val, 9, 8 + SIGNATURE_SIZE),
                           code |-> SubSeq(rest.val, 9 + SIGNATURE_SIZE,
                                           8 + SIGNATURE_SIZE + MAX_MODULE_SIZE)]]
        after_encoded(up, en, enc) ==
            IF ~enc.ok THEN enc
            ELSE all(up, en, enc, Take(buf, enc.pos, 8 + SIGNATURE_SIZE + MAX_MODULE_SIZE))
        after_enabled(up, en) ==
            IF ~en.ok THEN en ELSE after_encoded(up, en, de_U64(buf, en.pos))
        after_updated(up) ==
            IF ~up.ok THEN up ELSE after_enabled(up, de_U64(buf, up.pos))
    IN after_updated(de_U64(buf, pos))

\* [ok, val, pos] with val the sequence of the n events read
RECURSIVE de_Events(_, _, _)
de_Events(buf, pos, n) ==
    IF n = 0 THEN [ok |-> TRUE, val |-> << >>, pos |-> pos]
    ELSE LET cons(x, r) ==
                 IF ~r.ok THEN r
                 ELSE [ok |-> TRUE, val |-> <<x.val>> \o r.val, pos |-> r.pos]
             head(x) == IF ~x.ok THEN x ELSE cons(x, de_Events(buf, x.pos, n - 1))
         IN head(de_Event(buf, pos))

\* [ok, val, pos] with val the sequence of the n modules read
RECURSIVE de_Modules(_, _, _)
de_Modules(buf, pos, n) ==
    IF n = 0 THEN [ok |-> TRUE, val |-> << >>, pos |-> pos]
    ELSE LET cons(x, r) ==
                 IF ~r.ok THEN r
                 ELSE [ok |-> TRUE, val |-> <<x.val>> \o r.val, pos |-> r.pos]
             head(x) == IF ~x.ok THEN x ELSE cons(x, de_Modules(buf, x.pos, n - 1))
         IN head(de_Module(buf, pos))

\* bincode::deserialize_from: [ok, s]
deserialize(buf) ==
    LET all(rp, rs, ei, ev, mo) ==
            IF ~rp.ok \/ ~rs.ok \/ ~ei.ok \/ ~ev.ok \/ ~mo.ok
            THEN [ok |-> FALSE, s |-> NoValue]
            ELSE [ok |-> TRUE,
                  s |-> [repairs |-> rp.val, restarts |-> rs.val, event_index |-> ei.val,
                         events |-> [i \in EventIds |-> ev.val[i + 1]],
                         modules |-> [i \in ModuleIds |-> mo.val[i + 1]]]]
        after_events(rp, rs, ei, ev) ==
            all(rp, rs, ei, ev, de_Modules(buf, ev.pos, NUM_MODULES))
        after_index(rp, rs, ei) ==
            after_events(rp, rs, ei, de_Events(buf, ei.pos, NUM_EVENTS))
        after_restarts(rp, rs) == after_index(rp, rs, de_U64(buf, rs.pos))
        after_repairs(rp) == after_restarts(rp, de_U64(buf, rp.pos))
    IN after_repairs(de_U64(buf, 1))

\* load_checkpoint that leaves the enabled flags as they were saved
load_checkpoint_keep_enabled(file) ==
    LET restored(s, inc) ==
            [ok |-> inc.ok,
             s |-> [s EXCEPT !.restarts = inc.d,
                             !.modules = [i \in ModuleIds |-> verify_code(s.modules[i]).m]]]
        loaded(de) ==
            IF ~de.ok THEN de ELSE restored(de.s, U64_increment(de.s.restarts, 1))
    IN loaded(deserialize(file))

\* load_checkpoint: [ok, s]; s is the loaded state when ok
load_checkpoint(file) ==
    LET restored(s, inc) ==
            [ok |-> inc.ok,
             s |-> [s EXCEPT !.restarts = inc.d,
                             !.modules = [i \in ModuleIds |->
                                 set_enabled(verify_code(s.modules[i]).m, FALSE)]]]
        loaded(de) ==
            IF ~de.ok THEN de ELSE restored(de.s, U64_increment(de.s.restarts, 1))
    IN loaded(deserialize(file))

(***************************************************************************)
(* Control requests and responses                                          *)
(***************************************************************************)
\* a ControlRequest: the variant and its fields (those of other variants are
\* left empty)
Request(kind) ==
    [kind |-> kind, token |-> << >>, nonce |-> << >>, id |-> 0, enable |-> FALSE,
     module |-> << >>, signature |-> << >>, encoded |-> FALSE]

EnableModule(id, enable) ==
    [Request("EnableModule") EXCEPT !.id = id, !.enable = enable]

UpdateModule(id, module, signature, encoded) ==
    [Request("UpdateModule") EXCEPT !.id = id, !.module = module,
                                    !.signature = signature, !.encoded = encoded]

\* a ControlResponse: the variant and its fields (those of other variants are
\* left empty); payload holds the numbers of the telemetry variants, in order
NoResponse ==
    [kind |-> "none", success |-> FALSE, checksum |-> NoValue, verified |-> FALSE,
     enabled |-> FALSE, authenticated |-> FALSE, connected |-> FALSE,
     repairs |-> NoValue, restarts |-> NoValue, events |-> << >>, modules |-> << >>,
     payload |-> << >>]

Response(kind) == [NoResponse EXCEPT !.kind = kind]

FirmwareResponse(success, repairs, restarts, events, modules) ==
    [NoResponse EXCEPT !.kind = "Firmware", !.success = success,
                       !.repairs = Some(repairs), !.restarts = Some(restarts),
                       !.events = events, !.modules = modules]

EnableModuleResponse(success) == [NoResponse EXCEPT !.kind = "EnableModule", !.success = success]

UpdateModuleResponse(success, checksum, verified, enabled) ==
    [NoResponse EXCEPT !.kind = "UpdateModule", !.success = success,
                       !.checksum = Some(checksum), !.verified = verified,
                       !.enabled = enabled]

\* ControlRequest::to_failure, variant by variant; EnableModule and UpdateModule
\* both map to EnableModule { success: false }
to_failure(request) ==
    IF request.kind = "NoOp" THEN Response("NoOp")
    ELSE IF request.kind = "Authenticate"
    THEN [Response("Authenticate") EXCEPT !.authenticated = FALSE, !.connected = FALSE]
    ELSE IF request.kind = "Reset" THEN [Response("Reset") EXCEPT !.success = FALSE]
    ELSE IF request.kind = "Firmware" THEN FirmwareResponse(FALSE, 0, 0, << >>, << >>)
    ELSE IF request.kind = "PositionVelocity"
    THEN [Response("PositionVelocity") EXCEPT !.success = FALSE,
                                              !.payload = <<0, 0, 0, 0, 0, 0, 0>>]
    ELSE IF request.kind = "KeplerianElements"
    THEN [Response("KeplerianElements") EXCEPT !.success = FALSE,
                                               !.payload = <<0, 0, 0, 0, 0, 0, 0>>]
    ELSE IF request.kind = "Sensors"
    THEN [Response("Sensors") EXCEPT !.success = FALSE, !.payload = <<0, 0>>]
    ELSE IF request.kind = "EnableModule" THEN EnableModuleResponse(FALSE)
    ELSE IF request.kind = "UpdateModule" THEN EnableModuleResponse(FALSE)
    ELSE IF request.kind = "Maneuver" THEN [Response("Maneuver") EXCEPT !.success = FALSE]
    ELSE Response("Disconnect")

\* results of process_request: [err, errkind, resp, s, accepted]; err is the Err
\* return and errkind its RadError variant; accepted tells that Module::update
\* stored the uploaded code
Handled(s, resp, accepted) ==
    [err |-> FALSE, errkind |-> "", resp |-> resp, s |-> s, accepted |-> accepted]
Failed(s, errkind) ==
    [err |-> TRUE, errkind |-> errkind, resp |-> NoResponse, s |-> s, accepted |-> FALSE]

\* Firmware: every event is read (and repaired in place), then every module's
\* status: [ok, s, events] and [ok, s, modules]
RECURSIVE firmware_events(_, _, _)
firmware_events(s, i, events) ==
    IF i = NUM_EVENTS THEN [ok |-> TRUE, s |-> s, events |-> events]
    ELSE LET got(g) ==
                 IF ~g.ok THEN [ok |-> FALSE, s |-> [s EXCEPT !.events[i] = g.e],
                                events |-> events]
                 ELSE firmware_events([s EXCEPT !.events[i] = g.e], i + 1,
                                      Append(events, [timestamp |-> g.timestamp[1],
                                                      message |-> g.message[1]]))
         IN got(Event_get(s.events[i]))

RECURSIVE firmware_modules(_, _, _)
firmware_modules(s, i, modules) ==
    IF i = NUM_MODULES THEN [ok |-> TRUE, s |-> s, modules |-> modules]
    ELSE LET status(en) ==
                 IF ~en.ok THEN [ok |-> FALSE, s |-> [s EXCEPT !.modules[i] = en.m],
                                 modules |-> modules]
                 ELSE firmware_modules([s EXCEPT !.modules[i] = en.m], i + 1,
                                       Append(modules, [enabled |-> en.val,
                                                        verified |-> is_verified(en.m),
                                                        checksum |-> hash(en.m.code)]))
         IN status(is_enabled(s.modules[i]))

\* process_Firmware that leaves the module list out
process_Firmware_nomodules(state, request) ==
    Handled(state, FirmwareResponse(TRUE, 0, 0, << >>, << >>), FALSE)

process_Firmware(state, request) ==
    LET counted(s, ev, mo, rp, rs) ==
            IF ~rs.ok THEN Failed([s EXCEPT !.restarts = rs.d], "Repair")
            ELSE Handled([s EXCEPT !.restarts = rs.d],
                         FirmwareResponse(TRUE, rp.val[1], rs.val[1], ev.events, mo.modules),
                         FALSE)
        repairs(s, ev, mo, rp) ==
            IF ~rp.ok THEN Failed([s EXCEPT !.repairs = rp.d], "Repair")
            ELSE counted([s EXCEPT !.repairs = rp.d], ev, mo, rp, U64_get(s.restarts))
        modules(ev, mo) ==
            IF ~mo.ok THEN Failed(mo.s, "Repair")
            ELSE repairs(mo.s, ev, mo, U64_get(mo.s.repairs))
        events(ev) ==
            IF ~ev.ok THEN Failed(ev.s, "Repair")
            ELSE modules(ev, firmware_modules(ev.s, 0, << >>))
    IN events(firmware_events(state, 0, << >>))

\* process_EnableModule that does not look at the id
process_EnableModule_anyid(state, now, request) ==
    Handled(log([state EXCEPT !.modules[request.id % NUM_MODULES] =
                          set_enabled(state.modules[request.id % NUM_MODULES],
                                      request.enable)],
                now, STR_enable_module \o Decimal(request.id) \o STR_success),
            EnableModuleResponse(TRUE), FALSE)

process_EnableModule(state, now, request) ==
    IF request.id \in ModuleIds
    THEN Handled(log([state EXCEPT !.modules[request.id] =
                                 set_enabled(state.modules[request.id], request.enable)],
                     now, STR_enable_module \o Decimal(request.id) \o STR_success),
                 EnableModuleResponse(TRUE), FALSE)
    ELSE Handled(log(state, now, STR_enable_module \o Decimal(request.id) \o STR_failure),
                 EnableModuleResponse(FALSE), FALSE)

process_UpdateModule(state, now, request) ==
    IF request.id \in ModuleIds
    THEN LET id == request.id
             with(m) == [state EXCEPT !.modules[id] = m]
             verified(u, v) ==
                 Handled(log(with(set_encoded(set_enabled(v.m, TRUE), request.encoded)),
                             now, STR_update_module \o Decimal(id) \o STR_success),
                         UpdateModuleResponse(v.val, u.checksum, v.val, TRUE), TRUE)
             updated(m1, u) ==
                 IF ~u.ok THEN Failed(with(m1), "Protocol")
                 ELSE verified(u, verify_code(u.m))
             disabled(m1) ==
                 updated(m1, Module_update(m1, now, request.module, request.signature))
             checked(cu) ==
                 IF ~cu.ok THEN Failed(with(cu.m), "Repair")
                 ELSE IF ~cu.val
                 THEN Handled(log(with(cu.m), now,
                                  STR_update_module \o Decimal(id) \o STR_failure),
                              to_failure(request), FALSE)
                 ELSE disabled(set_enabled(cu.m, FALSE))
         IN checked(can_update(state.modules[id], now))
    ELSE Handled(log(state, now, STR_update_module \o Decimal(request.id) \o STR_failure),
                 to_failure(request), FALSE)

process_request(state, now, request) ==
    IF request.kind = "Firmware" THEN process_Firmware(state, request)
    ELSE IF request.kind = "EnableModule" THEN process_EnableModule(state, now, request)
    ELSE process_UpdateModule(state, now, request)

(***************************************************************************)
(* The main loop, one phase at a time                                      *)
(***************************************************************************)
REPORT_INTERVAL == 10

\* the module after m.execute() returned r: an error disables it
executed_module_kept(r) == r.m

executed_module(r) == IF r.ok THEN r.m ELSE set_enabled(r.m, FALSE)

\* run dynamic modules: [s, runs]; module i is executed on the state the
\* modules before it left, and disabled when its execution fails
RECURSIVE run_modules(_, _, _)
run_modules(s, i, runs) ==
    IF i = NUM_MODULES THEN [s |-> s, runs |-> runs]
    ELSE LET executed(r) ==
                 run_modules([s EXCEPT !.modules[i] = executed_module(r)],
                             i + 1,
                             Append(runs, [pre |-> s.modules[i], ok |-> r.ok,
                                           out |-> r.out, err |-> r.err, ran |-> r.ran,
                                           calls |-> r.calls]))
         IN executed(Module_execute(s.modules[i]))

\* the results are logged first, in module order, then the errors
RECURSIVE log_results(_, _, _, _)
log_results(s, now, runs, i) ==
    IF i = NUM_MODULES THEN s
    ELSE LET r == runs[i + 1]
         IN IF r.ok /\ Len(r.out) > 0
            THEN log_results(log(s, now, STR_module \o Decimal(i) \o STR_result
                                             \o hex_encode(r.out)),
                             now, runs, i + 1)
            ELSE log_results(s, now, runs, i + 1)

RECURSIVE log_errors(_, _, _, _)
log_errors(s, now, runs, i) ==
    IF i = NUM_MODULES THEN s
    ELSE LET r == runs[i + 1]
         IN IF ~r.ok
            THEN log_errors(log(s, now, STR_module \o Decimal(i) \o STR_exec_error \o r.err),
                            now, runs, i + 1)
            ELSE log_errors(s, now, runs, i + 1)

\* the periodic report reads is_enabled of every module: [ok, s]
RECURSIVE report_modules(_, _)
report_modules(s, i) ==
    IF i = NUM_MODULES THEN [ok |-> TRUE, s |-> s]
    ELSE LET next(ok, s1) == IF ok THEN report_modules(s1, i + 1)
                             ELSE [ok |-> FALSE, s |-> s1]
             read(en) == next(en.ok, [s EXCEPT !.modules[i] = en.m])
         IN read(is_enabled(s.modules[i]))

(***************************************************************************)
(* State                                                                   *)
(***************************************************************************)
VARIABLES
    dkind,      \* SpecDatum: "u64" or "bytes", the type of the datum under test
    dat,        \* SpecDatum: the datum (shards and checksum) as it is in memory
    dval,       \* SpecDatum: the value last written to it
    dflips,     \* SpecDatum: bit flips injected since the last update
    dres,       \* SpecDatum: what the last operation did
    st,         \* the protected State of the running firmware process
    fwup,       \* a firmware process is running
    pc,         \* the phase of the main loop the process is at
    now,        \* the clock, in seconds (SystemTime::now)
    last_report_ts, \* main loop: time of the last periodic report
    chkpt,      \* the checkpoint file rad.chkpt: NoValue, or Some(content)
    execq,      \* Checkpoint requests sent by the firmware, not yet served
    mg,         \* per module: result of the last verify_code, faults since
    lastAccept, \* per module: clock of the last accepted UpdateModule
    gres,       \* what the last step did
    nfaults,    \* bit flips injected so far
    nreqs,      \* control requests received so far
    nstarts,    \* firmware processes started so far
    ex,         \* SpecExec: the executive's control proxy and its firmware
    px,         \* SpecProxy: team containers of a node, the last two connections
    vm,         \* SpecVm: the last syscall or run of the module VM
    cp,         \* SpecPersist: the executive's copy into rad.chkpt, while it runs
    sv,         \* SpecSup: the executive's tasks and the firmware's threads
    wd,         \* SpecWatchdog: the watchdog timer of a firmware process
    ij          \* SpecInject: the fault injector and the memory of its firmware

dvars == <<dkind, dat, dval, dflips, dres>>
fwvars == <<st, fwup, pc, now, last_report_ts, chkpt, execq, mg, lastAccept, gres,
            nfaults, nreqs, nstarts>>
ovars == <<ex, px, vm, cp, sv, wd, ij>>
vars == <<dvars, fwvars, ovars>>
\* what the actions of SpecExec, SpecProxy and SpecVm leave unchanged
notEx == <<dvars, fwvars, px, vm, cp, sv, wd, ij>>
notPx == <<dvars, fwvars, ex, vm, cp, sv, wd, ij>>
notVm == <<dvars, fwvars, ex, px, cp, sv, wd, ij>>
notSv == <<dvars, fwvars, ex, px, vm, cp, wd, ij>>
notWd == <<dvars, fwvars, ex, px, vm, cp, sv, ij>>
notIj == <<dvars, fwvars, ex, px, vm, cp, sv, wd>>

(***************************************************************************)
(* The executive's control proxy (rad_exec control.rs)                     *)
(***************************************************************************)
\* process_connection that answers Maneuver itself
is_proxied_no_maneuver(request) ==
    request.kind \in {"Firmware", "PositionVelocity", "KeplerianElements", "Sensors",
                      "EnableModule", "UpdateModule"}

\* process_connection: the requests handed to proxy_request
is_proxied(request) ==
    request.kind \in {"Firmware", "PositionVelocity", "KeplerianElements", "Sensors",
                      "EnableModule", "UpdateModule", "Maneuver"}

\* rad_fw process_request: the kinds the firmware treats as a violation of
\* the control protocol
invalid_control_message(request) == request.kind \in {"NoOp", "Reset", "Disconnect"}

\* process_connection: the other arms of the match: [response, disconnect]
answer_locally_reset_done(request, failure_response) ==
    IF request.kind = "NoOp" THEN [response |-> Response("NoOp"), disconnect |-> FALSE]
    ELSE IF request.kind = "Authenticate"
    THEN [response |-> failure_response, disconnect |-> TRUE]
    ELSE IF request.kind = "Reset"
    THEN [response |-> [Response("Reset") EXCEPT !.success = TRUE], disconnect |-> FALSE]
    ELSE IF request.kind = "Disconnect"
    THEN [response |-> Response("Disconnect"), disconnect |-> TRUE]
    ELSE [response |-> failure_response, disconnect |-> FALSE]
answer_locally(request, failure_response) ==
    IF request.kind = "NoOp" THEN [response |-> Response("NoOp"), disconnect |-> FALSE]
    ELSE IF request.kind = "Authenticate"
    THEN [response |-> failure_response, disconnect |-> TRUE]
    ELSE IF request.kind = "Reset"
    THEN [response |-> [Response("Reset") EXCEPT !.success = FALSE], disconnect |-> FALSE]
    ELSE IF request.kind = "Disconnect"
    THEN [response |-> Response("Disconnect"), disconnect |-> TRUE]
    ELSE [response |-> failure_response, disconnect |-> FALSE]

\* what a firmware may answer to a proxied request: the variant with
\* success = true, or the failure response
FwResponses(request) ==
    {[Response(request.kind) EXCEPT !.success = TRUE], to_failure(request)}

\* the executive after start: no connection, empty channels, proxy task waiting,
\* the firmware not started yet; req, failure, tries, writes, answered and got
\* keep the history of the request read last
Exec_new ==
    [conn |-> FALSE, pc |-> "read", req |-> NoValue, failure |-> NoValue,
     tx |-> << >>, rx |-> << >>, ppc |-> "recv", preq |-> NoValue,
     fw |-> FALSE, sock |-> "none", fwresp |-> NoValue,
     tries |-> 0, writes |-> 0, answered |-> NoValue, got |-> << >>,
     nreq |-> 0, ndeaths |-> 0]

(***************************************************************************)
(* The proxy and the node manager (rad_proxy main.rs).  The sealed token   *)
(* is the plaintext under a one-byte keystream followed by a one-byte tag; *)
(* a JWT is reduced to "j", the user_id in decimal, ".", and an expiry.    *)
(***************************************************************************)
\* nodes in the proxy's configuration (conf.nodes.len())
NUM_NODES == 3
NONCE_LEN == 12
TAG_LEN == 1
KEYSTREAM == 90
PORT_BASE == 1024
PORT_RANGE == 64000

\* the user ids of the model: the one of TEST_TOKEN and two others
TeamIds == {31337, 242, 257}

\* digest(&SHA256, &team_id.to_be_bytes()).as_ref()[..8]
SHA256_8(team_id) ==
    IF team_id = 31337 THEN <<131, 59, 155, 224, 44, 68, 158, 110>>
    ELSE IF team_id = 242 THEN <<39, 180, 247, 8, 92, 178, 117, 234>>
    ELSE <<172, 34, 52, 228, 64, 186, 75, 234>>

\* usize::from_be_bytes(bytes) % m, byte by byte
RECURSIVE BeMod(_, _, _)
BeMod(bytes, m, acc) ==
    IF bytes = << >> THEN acc
    ELSE BeMod(Tail(bytes), m, (acc * 256 + bytes[1]) % m)

RECURSIVE XorFold(_)
XorFold(s) == IF s = << >> THEN 165 ELSE Xor(s[1], XorFold(Tail(s)))

\* seal_in_place_append_tag
seal(plain) ==
    [k \in 1..Len(plain) |-> Xor(plain[k], KEYSTREAM)]
        \o [k \in 1..TAG_LEN |-> XorFold(plain)]

Jwt(user_id, exp) == <<106>> \o Decimal(user_id) \o <<46>> \o Decimal(exp)

TEST_TOKEN == Jwt(31337, 0)

\* decrypt_token: [ok, err, text]
decrypt_token(token, nonce) ==
    LET opened(plain) ==
            IF \E k \in 1..TAG_LEN : token[Len(plain) + k] # XorFold(plain)
            THEN [ok |-> FALSE, err |-> "unseal token", text |-> << >>]
            ELSE IF ~ValidUtf8(plain)
            THEN [ok |-> FALSE, err |-> "invalid UTF-8 token", text |-> << >>]
            ELSE [ok |-> TRUE, err |-> "", text |-> plain]
    IN IF Len(nonce) # NONCE_LEN
       THEN [ok |-> FALSE, err |-> "create nonce", text |-> << >>]
       ELSE IF Len(token) < TAG_LEN
       THEN [ok |-> FALSE, err |-> "unseal token", text |-> << >>]
       ELSE opened([k \in 1..(Len(token) - TAG_LEN) |-> Xor(token[k], KEYSTREAM)])

RECURSIVE ParseDecimal(_, _)
ParseDecimal(s, acc) ==
    IF s = << >> \/ s[1] \notin 48..57 THEN acc
    ELSE ParseDecimal(Tail(s), acc * 10 + (s[1] - 48))

\* decode_token: [ok, val]
decode_token(token) ==
    IF Len(token) >= 2 /\ token[1] = 106 /\ token[2] \in 48..57
    THEN [ok |-> TRUE, val |-> Some(ParseDecimal(Tail(token), 0))]
    ELSE [ok |-> FALSE, val |-> NoValue]

\* decrypt_token(..).and_then(decode_token): [ok, err, text, val]
token_team(request) ==
    LET decoded(d, t) ==
            [ok |-> t.ok, err |-> IF t.ok THEN "" ELSE "invalid token",
             text |-> d.text, val |-> t.val]
        decrypted(d) ==
            IF ~d.ok THEN [ok |-> FALSE, err |-> d.err, text |-> << >>, val |-> NoValue]
            ELSE decoded(d, decode_token(d.text))
    IN decrypted(decrypt_token(request.token, request.nonce))

\* proxy_client: node_index that is not reduced to the list
node_index_unbounded(team_id, n) == BeMod(SHA256_8(team_id), n + 1, 0)

\* proxy_client: usize::from_be_bytes(team_bytes) % conf.nodes.len()
node_index(team_id, n) == BeMod(SHA256_8(team_id), n, 0)

\* process_client: 1024 + (team_index % 64000)
team_port(team_id) == PORT_BASE + BeMod(SHA256_8(team_id), PORT_RANGE, 0)

AuthenticateResponse(authenticated, connected) ==
    [Response("Authenticate") EXCEPT !.authenticated = authenticated,
                                     !.connected = connected]

\* what became of a client connection: the responses written to the client,
\* whether it is spliced (open), the step that failed, the answer of the
\* external auth endpoint ("none" when it was not asked), the node and the
\* frames sent to it, the team whose container the client is attached to,
\* whether docker was run
NoConn ==
    [mode |-> "none", req |-> Request("NoOp"), responses |-> << >>, open |-> FALSE,
     pending |-> FALSE, fail |-> "", auth |-> "none", team |-> NoValue,
     node |-> NoValue, nodeframes |-> << >>, attached |-> NoValue, docker |-> FALSE]

\* proxy_client, with the node reachable or not
proxy_client(request, up) ==
    LET c == [NoConn EXCEPT !.mode = "proxy", !.req = request]
        routed(team_id, node) ==
            IF ~up
            THEN [c EXCEPT !.team = Some(team_id), !.node = Some(node), !.fail = "route",
                           !.responses = <<AuthenticateResponse(TRUE, FALSE)>>]
            ELSE [c EXCEPT !.team = Some(team_id), !.node = Some(node),
                           !.nodeframes = <<request>>, !.pending = TRUE, !.open = TRUE]
        decoded(t) ==
            IF ~t.ok THEN [c EXCEPT !.fail = t.err, !.responses = <<to_failure(request)>>]
            ELSE routed(t.val[1], node_index(t.val[1], NUM_NODES))
    IN IF request.kind # "Authenticate"
       THEN [c EXCEPT !.fail = "expected authentication request",
                      !.responses = <<to_failure(request)>>]
       ELSE decoded(token_team(request))

\* the team whose container listens on the port, if any
Listener(svc, port) ==
    IF \E u \in TeamIds : svc[u] /\ team_port(u) = port
    THEN Some(CHOOSE u \in TeamIds : svc[u] /\ team_port(u) = port)
    ELSE NoValue

\* process_client on a connection c that carries the request; auth is the
\* outcome of authenticate_team, started that of restart_service: [c, svc]
process_client(c, request, auth, started, svc) ==
    LET done(c1) == [c |-> [c1 EXCEPT !.pending = FALSE], svc |-> svc]
        answered(c1, response) ==
            done([c1 EXCEPT !.responses = Append(@, response)])
        attach(c1, team_id, listener) ==
            IF listener # NoValue
            THEN answered([c1 EXCEPT !.attached = listener, !.open = TRUE],
                          AuthenticateResponse(TRUE, TRUE))
            ELSE IF started
            THEN [c |-> [c1 EXCEPT !.pending = FALSE, !.docker = TRUE,
                                   !.attached = Some(team_id), !.open = TRUE,
                                   !.responses =
                                       Append(@, AuthenticateResponse(TRUE, TRUE))],
                  svc |-> [svc EXCEPT ![team_id] = TRUE]]
            ELSE answered([c1 EXCEPT !.docker = TRUE, !.fail = "route", !.open = FALSE],
                          AuthenticateResponse(TRUE, FALSE))
        authenticated(c1, team_id) ==
            attach(c1, team_id, Listener(svc, team_port(team_id)))
        decoded(t) ==
            IF ~t.ok THEN done([c EXCEPT !.fail = t.err, !.open = FALSE])
            ELSE IF t.text = TEST_TOKEN
            THEN authenticated([c EXCEPT !.team = t.val], t.val[1])
            ELSE IF auth = "error"
            THEN done([c EXCEPT !.team = t.val, !.auth = auth, !.open = FALSE,
                                !.fail = "authentication get"])
            ELSE IF auth = "non2xx"
            THEN answered([c EXCEPT !.team = t.val, !.auth = auth, !.open = FALSE,
                                    !.fail = "not authenticated"],
                          AuthenticateResponse(FALSE, FALSE))
            ELSE authenticated([c EXCEPT !.team = t.val, !.auth = auth], t.val[1])
    IN IF request.kind # "Authenticate"
       THEN answered([c EXCEPT !.fail = "expected authentication request",
                               !.open = FALSE],
                     to_failure(request))
       ELSE decoded(token_team(request))

\* what is kept of the connection before the last
Brief(c) ==
    [mode |-> c.mode, req |-> c.req, team |-> c.team, node |-> c.node,
     nodeframes |-> c.nodeframes]

\* no container runs, no connection was handled, none is on its way to a node
Proxy_new ==
    [svc |-> [u \in TeamIds |-> FALSE], last |-> NoConn, prev |-> Brief(NoConn)]

\* the module VM before anything ran in it
Vm_new ==
    [op |-> "none", path |-> 0, path_size |-> 0, store_addr |-> 0, code |-> << >>,
     mem |-> << >>, on |-> FALSE, pc |-> 0, r |-> [i \in 0..3 |-> 0],
     res |-> [ok |-> TRUE, ret |-> 0, mem |-> << >>, opened |-> NoValue,
              calls |-> 0, left |-> METER_START]]

\* service.rs process_connection: no Checkpoint request is being persisted
Copy_new == [on |-> FALSE, src |-> << >>, at |-> 0]

\* rad_exec main: the executive runs with its simulation on the initial orbit,
\* no firmware process has been spawned yet
Sup_new ==
    [exec |-> TRUE, sim |-> "run", orbit |-> "initial", alt |-> 0, fuel |-> 0, served |-> "",
     fw |-> "none", exit |-> NoValue, prev |-> NoValue,
     ctl |-> "bind", prx |-> "connect", err |-> ""]

\* watchdog.rs: a firmware process whose main loop has just kicked the timer
Wd_new == [up |-> TRUE, exit |-> NoValue, age |-> 0, nap |-> 0, gap |-> 0]

\* monitor.rs inject_faults: the injector sleeps, nothing has been injected
Inj_new ==
    [base |-> 0, size |-> 0, alive |-> TRUE, mem |-> << >>, pc |-> "wait",
     addr |-> 0, bit |-> 0, x |-> {}, stored |-> FALSE, last |-> NoValue,
     hit |-> {}, stores |-> 0, n |-> 0]

\* the components a specification leaves out stay as constructed
OIdle ==
    /\ ex = Exec_new /\ px = Proxy_new /\ vm = Vm_new /\ cp = Copy_new
    /\ sv = Sup_new /\ wd = Wd_new /\ ij = Inj_new

(***************************************************************************)
(* SpecDatum: one protected datum                                          *)
(***************************************************************************)
U64Values == {0, 300, 43981}
\* 2N-byte values: all zero, all "A", and "A", "B", "C", ...
BytesValues ==
    {Zeros(2 * BYTES_N), [k \in 1..(2 * BYTES_N) |-> 65], [k \in 1..(2 * BYTES_N) |-> 64 + k]}
\* a slice that is not 2 * N bytes long
ShortSlice == <<65>> \o Zeros(2 * BYTES_N - 2)

ShardLen == IF dkind = "u64" THEN U64_SHARD ELSE BYTES_N
Datum_new(kind, v) == IF kind = "u64" THEN U64_new(v) ELSE Bytes_new(BYTES_N, v)
Datum_verify(d) == IF dkind = "u64" THEN U64_verify(d) ELSE Bytes_verify(d)
Datum_repair(d) == IF dkind = "u64" THEN U64_repair(d) ELSE Bytes_repair(d)
Datum_get(d) == IF dkind = "u64" THEN U64_get(d) ELSE Bytes_get(d)
Datum_update(d, v) ==
    IF dkind = "u64" THEN [ok |-> TRUE, d |-> U64_update(d, v)]
    ELSE Bytes_update(d, BYTES_N, v)

\* the parts of the datum that differ from what the last update wrote:
\* shards 1..3, and 0 for the checksum
Corrupted ==
    LET p == Datum_new(dkind, dval)
    IN {i \in 1..3 : dat.data[i] # p.data[i]}
       \cup (IF dat.checksum # p.checksum THEN {0} ELSE {})

NoRes == [op |-> "none", ok |-> TRUE, val |-> NoValue, pre |-> {}, ver |-> TRUE]

DIdle ==
    /\ dkind = "u64"
    /\ dval = 0
    /\ dat = U64_new(0)
    /\ dflips = 0
    /\ dres = NoRes

\* the firmware is not part of SpecDatum: its variables stay as constructed
FwIdle ==
    /\ st = State_new
    /\ fwup = FALSE
    /\ pc = "modules"
    /\ now = 0
    /\ last_report_ts = 0
    /\ chkpt = NoValue
    /\ execq = << >>
    /\ mg = << >>
    /\ lastAccept = << >>
    /\ gres = << >>
    /\ nfaults = 0
    /\ nreqs = 0
    /\ nstarts = 0

DInit ==
    /\ FwIdle
    /\ OIdle
    /\ dkind \in {"u64", "bytes"}
    /\ dval \in (IF dkind = "u64" THEN U64Values ELSE BytesValues)
    /\ dat = Datum_new(dkind, dval)
    /\ dflips = 0
    /\ dres = NoRes

\* a bit flip in one shard
DCorruptShard ==
    /\ dflips < MaxFlips
    /\ \E i \in 1..3, k \in 1..ShardLen, b \in FlipBits :
          dat' = [dat EXCEPT !.data[i] = FlipByteOf(dat.data[i], k, b)]
    /\ dflips' = dflips + 1
    /\ dres' = NoRes
    /\ UNCHANGED <<dkind, dval>>
    /\ UNCHANGED <<fwvars, ovars>>

\* a bit flip in the stored checksum
DCorruptChecksum ==
    /\ dflips < MaxFlips
    /\ \E b \in ChecksumBits : dat' = [dat EXCEPT !.checksum = FlipDigest(dat.checksum, b)]
    /\ dflips' = dflips + 1
    /\ dres' = NoRes
    /\ UNCHANGED <<dkind, dval>>
    /\ UNCHANGED <<fwvars, ovars>>

DGet ==
    /\ LET g == Datum_get(dat)
       IN /\ dat' = g.d
          /\ dres' = [op |-> "get", ok |-> g.ok, val |-> g.val, pre |-> Corrupted,
                      ver |-> Datum_verify(g.d)]
    /\ UNCHANGED <<dkind, dval, dflips>>
    /\ UNCHANGED <<fwvars, ovars>>

DRepair ==
    /\ LET r == Datum_repair(dat)
       IN /\ dat' = r.d
          /\ dres' = [op |-> "repair", ok |-> r.ok, val |-> NoValue, pre |-> Corrupted,
                      ver |-> Datum_verify(r.d)]
    /\ UNCHANGED <<dkind, dval, dflips>>
    /\ UNCHANGED <<fwvars, ovars>>

DUpdate ==
    /\ \E v \in (IF dkind = "u64" THEN U64Values ELSE BytesValues \cup {ShortSlice}) :
          LET u == Datum_update(dat, v)
          IN /\ dat' = u.d
             /\ dval' = IF u.ok THEN v ELSE dval
             /\ dflips' = IF u.ok THEN 0 ELSE dflips
             /\ dres' = [op |-> "update", ok |-> u.ok,
                         val |-> IF u.ok THEN Datum_get(u.d).val ELSE NoValue,
                         pre |-> Corrupted, ver |-> Datum_verify(u.d)]
    /\ UNCHANGED dkind
    /\ UNCHANGED <<fwvars, ovars>>

DNext == DCorruptShard \/ DCorruptChecksum \/ DGet \/ DRepair \/ DUpdate

SpecDatum == DInit /\ [][DNext]_vars


(***************************************************************************)
(* Properties of the protected datum (checked under SpecDatum)             *)
(***************************************************************************)
\* C1: when exactly one shard (shard 0, shard 1 or the parity shard) differs
\* from what the last update wrote and the checksum is intact, get() succeeds,
\* returns the value last written, and verify() is true afterwards.
C1_SingleShardGet ==
    (dres.op = "get" /\ dres.pre \in {{1}, {2}, {3}})
        => (dres.ok /\ dres.val = Some(dval) /\ dres.ver)

\* a get() that repaired a corrupted parity shard of a Bytes<N>
C1_Witness ==
    /\ dkind = "bytes"
    /\ dres.op = "get"
    /\ dres.pre = {3}
    /\ dres.val = Some(dval)

\* C2: get() and repair() fail, and return no value, when two shards are
\* corrupted and when only the stored checksum is corrupted.
C2_Unrepairable ==
    (/\ dres.op \in {"get", "repair"}
     /\ \/ Cardinality(dres.pre \ {0}) = 2
        \/ dres.pre = {0})
        => (~dres.ok /\ dres.val = NoValue)

\* a get() on a U64 with two corrupted shards and an intact checksum
C2_Witness ==
    /\ dkind = "u64"
    /\ dres.op = "get"
    /\ Cardinality(dres.pre) = 2
    /\ 0 \notin dres.pre
    /\ ~dres.ok

\* C3: after update(v), whatever the datum held before (corrupted shards or
\* checksum included), verify() is true and get() returns v.
C3_UpdateThenGet ==
    (dres.op = "update" /\ dres.ok) => (dres.ver /\ dres.val = Some(dval))

\* an update of a datum whose checksum and one shard were corrupted
C3_Witness ==
    /\ dres.op = "update"
    /\ dres.ok
    /\ 0 \in dres.pre
    /\ Cardinality(dres.pre) = 2
    /\ dres.ver


(***************************************************************************)
(* Spec: the firmware process under fault injection, ground requests,      *)
(* checkpoints and restarts                                                *)
(***************************************************************************)
\* bit flips injected in one behaviour
MaxFaults == 2
\* control requests sent by the ground in one behaviour
MaxRequests == 2
\* firmware processes started in one behaviour
MaxStarts == 2
\* Checkpoint requests the firmware may have outstanding
MaxQueue == 1

\* readings of the clock (seconds)
NowValues == {1000, 1300}

\* an upload longer than MAX_MODULE_SIZE, and a signature of the wrong length
OVERSIZE_MODULE == Zeros(MAX_MODULE_SIZE + 1)
LONG_SIGNATURE == Zeros(SIGNATURE_SIZE + 1)

\* the control requests of the ground
Requests ==
    {UpdateModule(0, IMAGE_STATUS, SignatureOf(1), TRUE),
     UpdateModule(0, IMAGE_EXPLOIT, Zeros(SIGNATURE_SIZE), FALSE),
     UpdateModule(0, OVERSIZE_MODULE, Zeros(SIGNATURE_SIZE), FALSE),
     UpdateModule(0, IMAGE_STATUS, LONG_SIGNATURE, TRUE),
     UpdateModule(NUM_MODULES, IMAGE_STATUS, SignatureOf(1), TRUE),
     EnableModule(0, TRUE)}

\* the words of State a fault is injected into: <<field, module, shard>>
FaultTargets ==
    {<<"verified", 0, 0>>, <<"code", 0, 0>>,
     <<"restarts", 0, 1>>, <<"restarts", 0, 2>>,
     <<"enabled", 0, 1>>, <<"enabled", 0, 2>>}

\* one bit of the first byte of a shard flipped
FlipShard(d, i) == [d EXCEPT !.data[i] = FlipByteOf(d.data[i], 1, 0)]

\* one bit of a word of a datum flipped: word 0 is the checksum, 1..3 the shards
FlipWord(d, k) ==
    IF k = 0 THEN [d EXCEPT !.checksum = FlipDigest(d.checksum, 0)] ELSE FlipShard(d, k)

\* the state with one bit of the target flipped (x[0] ^= 1 << fault_bit)
flip(s, t) ==
    IF t[1] = "verified"
    THEN [s EXCEPT !.modules[t[2]].verified = FlipBit(s.modules[t[2]].verified, 0)]
    ELSE IF t[1] = "code"
    THEN [s EXCEPT !.modules[t[2]].code = FlipByteOf(s.modules[t[2]].code, 1, 0)]
    ELSE IF t[1] = "restarts"
    THEN [s EXCEPT !.restarts = FlipWord(s.restarts, t[3])]
    ELSE IF t[1] = "enabled"
    THEN [s EXCEPT !.modules[t[2]].enabled = FlipWord(s.modules[t[2]].enabled, t[3])]
    ELSE IF t[1] = "repairs"
    THEN [s EXCEPT !.repairs = FlipWord(s.repairs, t[3])]
    ELSE IF t[1] = "event_index"
    THEN [s EXCEPT !.event_index = FlipWord(s.event_index, t[3])]
    ELSE IF t[1] = "timestamp"
    THEN [s EXCEPT !.events[t[2]].timestamp = FlipWord(s.events[t[2]].timestamp, t[3])]
    ELSE IF t[1] = "message"
    THEN [s EXCEPT !.events[t[2]].message = FlipWord(s.events[t[2]].message, t[3])]
    ELSE IF t[1] = "encoded"
    THEN [s EXCEPT !.modules[t[2]].encoded = FlipWord(s.modules[t[2]].encoded, t[3])]
    ELSE [s EXCEPT !.modules[t[2]].updated = FlipWord(s.modules[t[2]].updated, t[3])]

Prefixes(q) == {SubSeq(q, 1, k) : k \in 0..Len(q)}

MgOf(verified) == [lastv |-> verified, vhit |-> FALSE, chit |-> FALSE]
MgNew == [i \in ModuleIds |-> MgOf(FALSE)]

\* exit status of the process: main returns, or reset() is called
EXIT_MAIN == 0
EXIT_RESET == 13

\* the record of a step
GNone ==
    [op |-> "none", req |-> << >>, resp |-> NoResponse, err |-> FALSE, errkind |-> "",
     accepted |-> FALSE, pre |-> << >>, post |-> << >>, prev |-> NoValue,
     runs |-> << >>, loaded |-> FALSE, file |-> NoValue, exit |-> NoValue]

Init ==
    /\ DIdle
    /\ OIdle
    /\ st = State_new
    /\ fwup = FALSE
    /\ pc = "modules"
    /\ now = 1000
    /\ last_report_ts = 0
    /\ chkpt = NoValue
    /\ execq = << >>
    /\ mg = MgNew
    /\ lastAccept = [i \in ModuleIds |-> NoValue]
    /\ gres = GNone
    /\ nfaults = 0
    /\ nreqs = 0
    /\ nstarts = 0

\* the process ends (execute returns an error and main returns): its memory is
\* gone, and of the Checkpoint requests handed to the proxy thread a prefix
\* has reached the executive
FwExit(q) ==
    /\ fwup' = FALSE
    /\ pc' = "modules"
    /\ st' = State_new
    /\ mg' = MgNew
    /\ last_report_ts' = 0
    /\ execq' \in Prefixes(q)

\* execute: a checkpoint that fails to load is removed
checkpoint_after_load_kept(ok, file) == file
checkpoint_after_load(ok, file) == IF ok THEN file ELSE NoValue

\* monitor.rs execute_firmware and main.rs execute up to the main loop; with
\* `bounded`, starts are counted up to MaxStarts
Start(bounded) ==
    /\ ~fwup
    /\ Len(execq) < MaxQueue
    /\ bounded => nstarts < MaxStarts
    /\ LET start(ok, s) ==
               /\ st' = s
               /\ chkpt' = checkpoint_after_load(ok, chkpt)
               /\ execq' = Append(execq, serialize(s))
               /\ mg' = [i \in ModuleIds |-> MgOf(s.modules[i].verified # 0)]
               /\ gres' = [GNone EXCEPT !.op = "start", !.loaded = ok, !.file = chkpt]
           loaded(l) == start(l.ok, IF l.ok THEN l.s ELSE State_new)
       IN loaded(IF chkpt = NoValue THEN [ok |-> FALSE, s |-> NoValue]
                 ELSE load_checkpoint(chkpt[1]))
    /\ fwup' = TRUE
    /\ pc' = "modules"
    /\ last_report_ts' = now
    /\ nstarts' = IF bounded THEN nstarts + 1 ELSE nstarts
    /\ UNCHANGED <<now, lastAccept, nfaults, nreqs>>
    /\ UNCHANGED <<dvars, ovars>>

FwStart == Start(TRUE)

\* main loop, first phase: the periodic report and checkpoint, then the
\* dynamic modules and their log entries; with `bounded`, the queue of
\* Checkpoint requests is kept within MaxQueue
Modules(bounded) ==
    /\ fwup
    /\ pc = "modules"
    /\ bounded => Len(execq) < MaxQueue
    /\ LET due == now - last_report_ts > REPORT_INTERVAL
           ran(s, rm) ==
               /\ st' = log_errors(log_results(rm.s, now, rm.runs, 0), now, rm.runs, 0)
               /\ execq' = IF due THEN Append(execq, serialize(s)) ELSE execq
               /\ last_report_ts' = IF due THEN now ELSE last_report_ts
               /\ pc' = "ground"
               /\ gres' = [GNone EXCEPT !.op = "modules", !.runs = rm.runs]
               /\ UNCHANGED <<fwup, mg>>
           reported(rep) ==
               IF ~rep.ok
               THEN /\ FwExit(execq)
                    /\ gres' = [GNone EXCEPT !.op = "modules", !.err = TRUE,
                                             !.exit = Some(EXIT_MAIN)]
               ELSE ran(rep.s, run_modules(rep.s, 0, << >>))
       IN reported(IF due THEN report_modules(st, 0) ELSE [ok |-> TRUE, s |-> st])
    /\ UNCHANGED <<now, chkpt, lastAccept, nfaults, nreqs, nstarts>>
    /\ UNCHANGED <<dvars, ovars>>

StepModules == Modules(TRUE)

\* main loop, ground channel: a request is handled; for an EnableModule or
\* UpdateModule response the checkpoint is sent, then the response
\* main loop, ground channel: the responses after which a checkpoint is created
CheckpointAfter_update_only(response) == response.kind = "UpdateModule"

CheckpointAfter(response) == response.kind \in {"EnableModule", "UpdateModule"}

GroundRequest(request) ==
    /\ fwup
    /\ pc = "ground"
    /\ Len(execq) < MaxQueue
    /\ nreqs < MaxRequests
    /\ LET id == request.id
           handled(p) ==
               /\ gres' = [GNone EXCEPT
                     !.op = request.kind, !.req = request, !.resp = p.resp,
                     !.err = p.err, !.errkind = p.errkind, !.accepted = p.accepted,
                     !.pre = IF id \in ModuleIds THEN st.modules[id] ELSE << >>,
                     !.post = IF id \in ModuleIds THEN p.s.modules[id] ELSE << >>,
                     !.prev = IF id \in ModuleIds THEN lastAccept[id] ELSE NoValue,
                     !.exit = IF p.err THEN Some(EXIT_MAIN) ELSE NoValue]
               /\ IF p.err
                  THEN /\ FwExit(execq)
                       /\ UNCHANGED lastAccept
                  ELSE /\ st' = p.s
                       /\ execq' = IF CheckpointAfter(p.resp)
                                   THEN Append(execq, serialize(p.s))
                                   ELSE execq
                       /\ pc' = "scrub"
                       /\ lastAccept' = IF p.accepted
                                        THEN [lastAccept EXCEPT ![id] = Some(now)]
                                        ELSE lastAccept
                       /\ mg' = IF p.accepted
                                THEN [mg EXCEPT ![id] = MgOf(p.resp.verified)]
                                ELSE mg
                       /\ UNCHANGED <<fwup, last_report_ts>>
       IN handled(process_request(st, now, request))
    /\ nreqs' = nreqs + 1
    /\ UNCHANGED <<now, chkpt, nfaults, nstarts>>
    /\ UNCHANGED <<dvars, ovars>>

StepGroundRequest == \E request \in Requests : GroundRequest(request)

\* main loop, ground channel: no request is waiting
StepGroundEmpty ==
    /\ fwup
    /\ pc = "ground"
    /\ pc' = "scrub"
    /\ gres' = GNone
    /\ UNCHANGED <<st, fwup, now, last_report_ts, chkpt, execq, mg, lastAccept,
                   nfaults, nreqs, nstarts>>
    /\ UNCHANGED <<dvars, ovars>>

\* main loop, last phase: scrub memory
StepScrub ==
    /\ fwup
    /\ pc = "scrub"
    /\ LET checked(c) ==
               IF c.ok
               THEN /\ st' = c.s
                    /\ pc' = "modules"
                    /\ gres' = [GNone EXCEPT !.op = "scrub"]
                    /\ UNCHANGED <<fwup, mg, last_report_ts, execq>>
               ELSE /\ FwExit(execq)
                    /\ gres' = [GNone EXCEPT !.op = "scrub", !.err = TRUE,
                                             !.exit = Some(EXIT_MAIN)]
       IN checked(check_state(st))
    /\ UNCHANGED <<now, chkpt, lastAccept, nfaults, nreqs, nstarts>>
    /\ UNCHANGED <<dvars, ovars>>

\* monitor.rs inject_faults: one bit of the running process's State is flipped
Inject ==
    /\ fwup
    /\ nfaults < MaxFaults
    /\ \E t \in FaultTargets :
          /\ st' = flip(st, t)
          /\ mg' = IF t[1] = "verified" THEN [mg EXCEPT ![t[2]].vhit = TRUE]
                   ELSE IF t[1] = "code" THEN [mg EXCEPT ![t[2]].chit = TRUE]
                   ELSE mg
    /\ nfaults' = nfaults + 1
    /\ gres' = GNone
    /\ UNCHANGED <<fwup, pc, now, last_report_ts, chkpt, execq, lastAccept, nreqs, nstarts>>
    /\ UNCHANGED <<dvars, ovars>>

\* rad_exec service.rs: a Checkpoint request is served, the file is replaced
SvcCheckpoint ==
    /\ execq # << >>
    /\ chkpt' = Some(Head(execq))
    /\ execq' = Tail(execq)
    /\ gres' = GNone
    /\ UNCHANGED <<st, fwup, pc, now, last_report_ts, mg, lastAccept, nfaults, nreqs,
                   nstarts>>
    /\ UNCHANGED <<dvars, ovars>>

\* time passes
ClockAdvance ==
    /\ \E t \in NowValues : t > now /\ now' = t
    /\ gres' = GNone
    /\ UNCHANGED <<st, fwup, pc, last_report_ts, chkpt, execq, mg, lastAccept, nfaults,
                   nreqs, nstarts>>
    /\ UNCHANGED <<dvars, ovars>>

Next ==
    \/ FwStart
    \/ StepModules
    \/ StepGroundRequest
    \/ StepGroundEmpty
    \/ StepScrub
    \/ Inject
    \/ SvcCheckpoint
    \/ ClockAdvance

Spec == Init /\ [][Next]_vars

(***************************************************************************)
(* Properties of the firmware (checked under Spec)                         *)
(***************************************************************************)
SignatureValid(m) == Ed25519_verify(m.code, m.signature)

\* C4 as stated: in every state of a running firmware, for every module,
\* verified is non-zero iff the stored signature is a valid signature of the
\* stored code.
C4_VerifiedIffSigned ==
    fwup => \A i \in ModuleIds : (st.modules[i].verified # 0) <=> SignatureValid(st.modules[i])

\* C4 amended: for every module that no bit flip has hit in its verified word or
\* its code since the last verify_code (or since State::new), verified is non-zero
\* iff the stored signature is a valid signature of the stored code.
C4_VerifiedIffSignedUnlessFault ==
    fwup => \A i \in ModuleIds :
               (~mg[i].vhit /\ ~mg[i].chit)
                   => ((st.modules[i].verified # 0) <=> SignatureValid(st.modules[i]))

\* an accepted upload of the signed image, in a process that has seen a fault
\* elsewhere
C4_Witness ==
    /\ fwup
    /\ gres.op = "UpdateModule"
    /\ gres.accepted
    /\ st.modules[0].verified # 0
    /\ SignatureValid(st.modules[0])
    /\ nfaults > 0

C6_UnverifiedRunsOnlyAfterFlip ==
    gres.op = "modules" =>
        \A k \in 1..Len(gres.runs) : (gres.runs[k].ran /\ ~mg[k - 1].lastv) => mg[k - 1].vhit

\* the exploit: uploaded with an invalid signature, run after a flip of its
\* verified word, it read the flag file and the log entry of the run holds the
\* hex encoding of what it read
C6_Witness ==
    /\ gres.op = "modules"
    /\ Len(gres.runs) = NUM_MODULES
    /\ gres.runs[1].pre.code = PadCode(IMAGE_EXPLOIT)
    /\ ~SignatureValid(gres.runs[1].pre)
    /\ ~mg[0].lastv
    /\ mg[0].vhit
    /\ gres.runs[1].ran
    /\ gres.runs[1].calls = 1
    /\ SubSeq(gres.runs[1].out, 1, Len(FLAG)) = FLAG
    /\ Bytes_verify(st.events[0].message)
    /\ st.events[0].message.data[1] \o st.events[0].message.data[2]
         = SubSeq(STR_module \o Decimal(0) \o STR_result \o hex_encode(gres.runs[1].out),
                  1, MAX_MESSAGE_SIZE)
    /\ Contains(st.events[0].message.data[1] \o st.events[0].message.data[2],
                STR_result \o hex_encode(FLAG))

\* C7 as stated: an accepted UpdateModule for a module id comes at least
\* MODULE_UPDATE_THRESHOLD seconds after the previous accepted UpdateModule
\* for that id, restarts of the firmware in between included.
C7_Cooldown ==
    (gres.op = "UpdateModule" /\ gres.accepted /\ gres.prev # NoValue)
        => now - gres.prev[1] >= MODULE_UPDATE_THRESHOLD

\* the value of a protected u64, or NoValue when it cannot be read
ValueOf(d) == U64_get(d).val

\* the fields of a module that a checkpoint and reload carries over unchanged
SameModuleData(a, b) ==
    /\ a.updated = b.updated
    /\ a.encoded = b.encoded
    /\ a.signature = b.signature
    /\ a.code = b.code

\* the fields of State outside restarts and the modules
SameStateData(a, b) ==
    /\ a.repairs = b.repairs
    /\ a.event_index = b.event_index
    /\ a.events = b.events

\* C8 as stated: serialising the state and loading it with load_checkpoint gives
\* a state equal to it in every field, except that restarts is larger by one and
\* every module is disabled.
C8_RoundTrip ==
    fwup => LET l == load_checkpoint(serialize(st))
            IN /\ l.ok
               /\ SameStateData(l.s, st)
               /\ ValueOf(l.s.restarts) = Some(ValueOf(st.restarts)[1] + 1)
               /\ \A i \in ModuleIds :
                     /\ SameModuleData(l.s.modules[i], st.modules[i])
                     /\ l.s.modules[i].verified = st.modules[i].verified
                     /\ ValueOf(l.s.modules[i].enabled) = Some(0)

\* C8 amended: the load succeeds iff restarts can be read; then the loaded state
\* equals the saved one in every field, except that restarts is larger by one,
\* every module is disabled, and every module's verified is the result of the
\* signature check on its stored code -- the saved value when no bit flip has hit
\* its verified word or its code since the last check.
C8_RoundTripRecheck ==
    fwup => LET l == load_checkpoint(serialize(st))
            IN /\ l.ok <=> U64_get(st.restarts).ok
               /\ l.ok =>
                    /\ SameStateData(l.s, st)
                    /\ ValueOf(l.s.restarts) = Some(ValueOf(st.restarts)[1] + 1)
                    /\ \A i \in ModuleIds :
                          /\ SameModuleData(l.s.modules[i], st.modules[i])
                          /\ l.s.modules[i].verified
                               = (IF SignatureValid(st.modules[i]) THEN 1 ELSE 0)
                          /\ (~mg[i].vhit /\ ~mg[i].chit)
                                => l.s.modules[i].verified = st.modules[i].verified
                          /\ ValueOf(l.s.modules[i].enabled) = Some(0)

\* a firmware started from the checkpoint of a state in which module 0 was
\* enabled
C8_Witness ==
    /\ fwup
    /\ gres.op = "start"
    /\ gres.loaded
    /\ ValueOf(deserialize(gres.file[1]).s.modules[0].enabled) = Some(1)
    /\ ValueOf(st.modules[0].enabled) = Some(0)
    /\ ValueOf(st.restarts) = Some(1)

\* the request passes the size checks of Module::update
WellFormed(request) ==
    Len(request.module) <= MAX_MODULE_SIZE /\ Len(request.signature) = SIGNATURE_SIZE

\* C9: an UpdateModule with a valid id, can_update(now) true and sizes within
\* limits is accepted; after an accepted UpdateModule the code is the upload
\* zero-padded to MAX_MODULE_SIZE, the signature is the uploaded one, updated
\* is now, encoded is the request's flag, verified is the result of the signature
\* check, enabled is true, and the response is UpdateModule{success = verified,
\* checksum = hash(code), verified, enabled = true}.
C9_UpdateAccepted ==
    gres.op = "UpdateModule" =>
        LET r == gres.req
            m == gres.post
            v == Ed25519_verify(PadCode(r.module), r.signature)
        IN /\ (r.id \in ModuleIds /\ WellFormed(r) /\ can_update(gres.pre, now).val)
                  <=> gres.accepted
           /\ gres.accepted =>
                 /\ Len(m.code) = MAX_MODULE_SIZE
                 /\ m.code = r.module \o Zeros(MAX_MODULE_SIZE - Len(r.module))
                 /\ m.signature = r.signature
                 /\ ValueOf(m.updated) = Some(now)
                 /\ ValueOf(m.encoded) = Some(IF r.encoded THEN 1 ELSE 0)
                 /\ m.verified = (IF v THEN 1 ELSE 0)
                 /\ ValueOf(m.enabled) = Some(1)
                 /\ gres.resp = UpdateModuleResponse(v, hash(m.code), v, TRUE)

\* the exploit accepted: not verified, enabled, over a module that held the
\* signed image before
C9_Witness ==
    /\ gres.op = "UpdateModule"
    /\ gres.accepted
    /\ gres.req.module = IMAGE_EXPLOIT
    /\ gres.pre.code = PadCode(IMAGE_STATUS)
    /\ gres.resp.kind = "UpdateModule"
    /\ ~gres.resp.success
    /\ ~gres.resp.verified
    /\ gres.resp.enabled

CtlRequests ==
    {Request("Firmware"),
     UpdateModule(0, IMAGE_STATUS, SignatureOf(1), TRUE)}
    \cup {EnableModule(id, enable) : id \in 0..NUM_MODULES, enable \in BOOLEAN}

CtlGroundRequest == \E request \in CtlRequests : GroundRequest(request)

NextControl ==
    \/ FwStart
    \/ StepModules
    \/ CtlGroundRequest
    \/ StepGroundEmpty
    \/ StepScrub
    \/ Inject
    \/ SvcCheckpoint

SpecControl == Init /\ [][NextControl]_vars

\* C11: an EnableModule{id, enable} request is answered with success = true
\* exactly when id is a module index; then the module's enabled flag reads as
\* enable afterwards, verified or not; for any other id the answer is
\* success = false and no module's enabled flag changes.
C11_EnableModule ==
    [][(gres'.op = "EnableModule" /\ nreqs' = nreqs + 1) =>
          /\ ~gres'.err
          /\ gres'.resp.kind = "EnableModule"
          /\ gres'.resp.success <=> gres'.req.id \in ModuleIds
          /\ gres'.req.id \in ModuleIds =>
                ValueOf(st'.modules[gres'.req.id].enabled)
                    = Some(IF gres'.req.enable THEN 1 ELSE 0)
          /\ gres'.req.id \notin ModuleIds =>
                \A i \in ModuleIds : st'.modules[i].enabled = st.modules[i].enabled]_vars

\* an unverified module has just been enabled
C11_Witness ==
    /\ gres.op = "EnableModule"
    /\ gres.req.id \in ModuleIds
    /\ gres.req.enable
    /\ gres.resp.success
    /\ ~is_verified(gres.post)
    /\ ValueOf(gres.post.enabled) = Some(1)

\* C12 as stated: a Firmware request handled on the state State::new made is
\* answered with success, repairs = 0, restarts = 0, no events, and one entry
\* per module, each with enabled = false and verified = false.
C12_FreshFirmware ==
    [][(st = State_new /\ gres'.op = "Firmware" /\ nreqs' = nreqs + 1) =>
          /\ ~gres'.err
          /\ gres'.resp.kind = "Firmware"
          /\ gres'.resp.success
          /\ gres'.resp.repairs = Some(0)
          /\ gres'.resp.restarts = Some(0)
          /\ gres'.resp.events = << >>
          /\ Len(gres'.resp.modules) = NUM_MODULES
          /\ \A i \in 1..NUM_MODULES :
                ~gres'.resp.modules[i].enabled /\ ~gres'.resp.modules[i].verified]_vars

\* C12, amended: the events list has one entry per slot of the event buffer,
\* each with timestamp 0 and an all-zero message.
C12_FreshFirmwareAllEvents ==
    [][(st = State_new /\ gres'.op = "Firmware" /\ nreqs' = nreqs + 1) =>
          /\ ~gres'.err
          /\ gres'.resp.kind = "Firmware"
          /\ gres'.resp.success
          /\ gres'.resp.repairs = Some(0)
          /\ gres'.resp.restarts = Some(0)
          /\ Len(gres'.resp.events) = NUM_EVENTS
          /\ \A i \in 1..NUM_EVENTS :
                /\ gres'.resp.events[i].timestamp = 0
                /\ gres'.resp.events[i].message = Zeros(MAX_MESSAGE_SIZE)
          /\ Len(gres'.resp.modules) = NUM_MODULES
          /\ \A i \in 1..NUM_MODULES :
                ~gres'.resp.modules[i].enabled /\ ~gres'.resp.modules[i].verified]_vars

\* the first request of a firmware started without a checkpoint is Firmware
C12_Witness ==
    /\ gres.op = "Firmware"
    /\ nreqs = 1
    /\ nfaults = 0
    /\ st = State_new
    /\ gres.resp.success
    /\ Len(gres.resp.events) = NUM_EVENTS


(***************************************************************************)
(* SpecExec: ground connections served by the executive, which proxies to  *)
(* a firmware that answers, dies and is restarted                           *)
(***************************************************************************)
\* requests read from ground connections in one behaviour
MaxExecRequests == 2
\* firmware deaths in one behaviour
MaxFwDeaths == 2

ExecRequests ==
    {Request(k) : k \in {"NoOp", "Authenticate", "Reset", "Firmware", "PositionVelocity",
                         "KeplerianElements", "Sensors", "Maneuver", "Disconnect"}}
    \cup {EnableModule(0, TRUE), UpdateModule(0, IMAGE_STATUS, SignatureOf(1), TRUE)}

EInit ==
    /\ DIdle
    /\ FwIdle
    /\ OIdle

\* process_connections: a ground connection is accepted
ExAccept ==
    /\ ~ex.conn
    /\ ex' = [ex EXCEPT !.conn = TRUE, !.pc = "read"]
    /\ UNCHANGED notEx

\* process_connection: a request is read; it is handed to the proxy task, or
\* answered at once
ExRead ==
    /\ ex.conn
    /\ ex.pc = "read"
    /\ ex.nreq < MaxExecRequests
    /\ \E request \in ExecRequests :
          LET answered(a) ==
                  [ex EXCEPT !.req = Some(request), !.failure = Some(to_failure(request)),
                             !.tries = 0, !.writes = 0, !.answered = NoValue,
                             !.got = <<a.response>>, !.conn = ~a.disconnect,
                             !.nreq = @ + 1]
          IN ex' = IF is_proxied(request)
                   THEN [ex EXCEPT !.req = Some(request),
                                   !.failure = Some(to_failure(request)),
                                   !.tries = 0, !.writes = 0, !.answered = NoValue,
                                   !.got = << >>, !.tx = Append(@, request),
                                   !.pc = "await", !.nreq = @ + 1]
                   ELSE answered(answer_locally(request, to_failure(request)))
    /\ UNCHANGED notEx

\* process_connection: the client closes the connection between two requests
ExClose ==
    /\ ex.conn
    /\ ex.pc = "read"
    /\ ex' = [ex EXCEPT !.conn = FALSE]
    /\ UNCHANGED notEx

\* proxy_requests_to_firmware: a request is received and proxy_request_to_firmware
\* connects: the request is written, or the connection is refused and the
\* failure response is sent back
ExProxyRecv ==
    /\ ex.ppc = "recv"
    /\ ex.tx # << >>
    /\ ex' = IF ex.fw
             THEN [ex EXCEPT !.tx = Tail(@), !.preq = Some(Head(ex.tx)), !.ppc = "sock",
                             !.sock = "request", !.tries = @ + 1, !.writes = @ + 1]
             ELSE [ex EXCEPT !.tx = Tail(@), !.tries = @ + 1,
                             !.rx = Append(@, to_failure(Head(ex.tx)))]
    /\ UNCHANGED notEx

\* proxy_request_to_firmware: the response is read, or the read fails and the
\* failure response is sent back
ExProxySock ==
    /\ ex.ppc = "sock"
    /\ ex.sock \in {"response", "closed"}
    /\ ex' = [ex EXCEPT !.rx = Append(@, IF ex.sock = "response" THEN ex.fwresp[1]
                                         ELSE to_failure(ex.preq[1])),
                        !.sock = "none", !.ppc = "recv", !.preq = NoValue,
                        !.fwresp = NoValue]
    /\ UNCHANGED notEx

\* process_connection: proxy_request returns and the response is written
ExRespond ==
    /\ ex.conn
    /\ ex.pc = "await"
    /\ ex.rx # << >>
    /\ ex' = [ex EXCEPT !.got = Append(@, Head(ex.rx)), !.rx = Tail(@), !.pc = "read"]
    /\ UNCHANGED notEx

\* rad_fw do_process_requests: the firmware answers the request it accepted
ExFwAnswer ==
    /\ ex.fw
    /\ ex.sock = "request"
    /\ \E r \in FwResponses(ex.preq[1]) :
          ex' = [ex EXCEPT !.sock = "response", !.fwresp = Some(r), !.answered = Some(r)]
    /\ UNCHANGED notEx

\* the firmware process ends; a request it has not answered is lost with it
ExFwDie ==
    /\ ex.fw
    /\ ex.ndeaths < MaxFwDeaths
    /\ ex' = [ex EXCEPT !.fw = FALSE, !.ndeaths = @ + 1,
                        !.sock = IF @ = "request" THEN "closed" ELSE @]
    /\ UNCHANGED notEx

\* monitor.rs: the firmware is started
ExFwStart ==
    /\ ~ex.fw
    /\ ex' = [ex EXCEPT !.fw = TRUE]
    /\ UNCHANGED notEx

ENext ==
    \/ ExAccept
    \/ ExRead
    \/ ExClose
    \/ ExProxyRecv
    \/ ExProxySock
    \/ ExRespond
    \/ ExFwAnswer
    \/ ExFwDie
    \/ ExFwStart

SpecExec == EInit /\ [][ENext]_vars

\* the tasks of the executive are scheduled, and a firmware that holds a
\* request answers it or ends
SpecExecLive ==
    /\ SpecExec
    /\ WF_vars(ExProxyRecv)
    /\ WF_vars(ExProxySock)
    /\ WF_vars(ExRespond)
    /\ WF_vars(ExFwAnswer \/ ExFwDie)

\* a response with every flag false and every number or list zero or empty
IsFailure(r) ==
    /\ ~r.success /\ ~r.verified /\ ~r.enabled /\ ~r.authenticated /\ ~r.connected
    /\ r.checksum \in {NoValue, Some(0)}
    /\ r.repairs \in {NoValue, Some(0)}
    /\ r.restarts \in {NoValue, Some(0)}
    /\ r.events = << >>
    /\ r.modules = << >>
    /\ \A k \in 1..Len(r.payload) : r.payload[k] = 0

\* the request read last is one the executive proxies
C13_Proxied ==
    /\ ex.req # NoValue
    /\ ex.req[1].kind \in {"Firmware", "PositionVelocity", "KeplerianElements", "Sensors",
                           "EnableModule", "UpdateModule", "Maneuver"}

C13_Safe ==
    C13_Proxied =>
       /\ ex.tries <= 1 /\ ex.writes <= 1 /\ Len(ex.got) <= 1
       /\ ex.pc = "read" =>
             /\ ex.tries = 1
             /\ Len(ex.got) = 1
             /\ IF ex.answered # NoValue THEN ex.writes = 1 /\ ex.got[1] = ex.answered[1]
                ELSE IsFailure(ex.got[1])

\* C13: every Firmware, PositionVelocity, KeplerianElements, Sensors,
\* EnableModule, UpdateModule or Maneuver request read from a ground connection
\* is handed to the firmware proxy exactly once (one connection, the request
\* written at most once), and the client gets exactly one response to it: the
\* firmware's if the firmware answered, otherwise a failure response; and the
\* response does arrive.
C13_OneForOne ==
    /\ []C13_Safe
    /\ (C13_Proxied /\ ex.pc = "await") ~> (C13_Proxied /\ ex.pc = "read" /\ Len(ex.got) = 1)

\* a request was proxied while the firmware died, and the client has the
\* failure response
C13_Witness ==
    /\ C13_Proxied
    /\ ex.pc = "read"
    /\ ex.writes = 1
    /\ ex.answered = NoValue
    /\ Len(ex.got) = 1
    /\ IsFailure(ex.got[1])

\* C14: for every request variant, to_failure gives the response variant of
\* the same name, with every flag false and every number or list zero or
\* empty.
C14_FailureMirrors ==
    ex.req # NoValue =>
       /\ ex.failure[1].kind = ex.req[1].kind
       /\ IsFailure(ex.failure[1])


(***************************************************************************)
(* SpecProxy: client connections to a proxy and to a node, one after the   *)
(* other, and the team containers of the node                               *)
(***************************************************************************)
Nonce == Zeros(NONCE_LEN)

Authenticate(token, nonce) ==
    [Request("Authenticate") EXCEPT !.token = token, !.nonce = nonce]

\* first frames of clients: sealed tokens of the three users (two for user
\* 242), a sealed text that is no JWT, a sealed byte string that is no UTF-8,
\* a token with a wrong tag, a nonce of the wrong length, and no Authenticate
PxFrames ==
    {Authenticate(seal(t), Nonce) :
         t \in {TEST_TOKEN, Jwt(242, 1), Jwt(242, 2), Jwt(257, 1), <<120>>, <<255>>}}
    \cup {Authenticate(<<48, 0>>, Nonce), Authenticate(seal(Jwt(242, 1)), <<0>>),
          Request("NoOp")}

\* answers of the external auth endpoint
AuthOutcomes == {"2xx", "non2xx", "error"}

PInit ==
    /\ DIdle
    /\ FwIdle
    /\ OIdle

\* proxy mode: a client connects to the proxy and sends its first frame
PxProxyClient ==
    /\ ~px.last.pending
    /\ \E request \in PxFrames, up \in BOOLEAN :
          px' = [px EXCEPT !.prev = Brief(px.last), !.last = proxy_client(request, up)]
    /\ UNCHANGED notPx

\* the node handles the connection the proxy forwarded; what it writes
\* reaches the client through the proxy
PxNodeForwarded ==
    /\ px.last.pending
    /\ \E auth \in AuthOutcomes, started \in BOOLEAN :
          LET set(r) == px' = [px EXCEPT !.last = r.c, !.svc = r.svc]
          IN set(process_client(px.last, px.last.nodeframes[1], auth, started, px.svc))
    /\ UNCHANGED notPx

\* node mode: a client connects to the node and sends its first frame
PxNodeClient ==
    /\ ~px.last.pending
    /\ \E request \in PxFrames, auth \in AuthOutcomes, started \in BOOLEAN :
          LET set(r) ==
                  px' = [px EXCEPT !.prev = Brief(px.last), !.last = r.c, !.svc = r.svc]
          IN set(process_client([NoConn EXCEPT !.mode = "node", !.req = request],
                                request, auth, started, px.svc))
    /\ UNCHANGED notPx

\* the executive of a team container ends
PxSvcExit ==
    /\ \E u \in TeamIds :
          /\ px.svc[u]
          /\ px' = [px EXCEPT !.svc[u] = FALSE]
    /\ UNCHANGED notPx

PNext ==
    \/ PxProxyClient
    \/ PxNodeForwarded
    \/ PxNodeClient
    \/ PxSvcExit

SpecProxy == PInit /\ [][PNext]_vars

\* C15: in proxy mode and in node mode, a connection whose Authenticate frame
\* fails (seal, UTF-8, JWT, external auth answering non-2xx or failing, node
\* or team service unreachable) gets exactly one Authenticate response and is
\* closed: authenticated = false for credential failures, authenticated = true
\* and connected = false when only routing failed.
C15_AuthFailureAnswered ==
    (px.last.mode # "none" /\ ~px.last.pending /\ px.last.req.kind = "Authenticate"
         /\ px.last.fail # "") =>
       /\ ~px.last.open
       /\ Len(px.last.responses) = 1
       /\ px.last.responses[1].kind = "Authenticate"
       /\ IF px.last.fail = "route"
          THEN px.last.responses[1].authenticated /\ ~px.last.responses[1].connected
          ELSE ~px.last.responses[1].authenticated

\* C16: a connection is attached to a team's executive, or has a container
\* removed or started for it, only after the external auth endpoint answered
\* 2xx for the token it presented.
C16_AttachOnlyAfterAuth ==
    (px.last.attached # NoValue \/ px.last.docker) => px.last.auth = "2xx"

\* C17: a client is attached only to the executive of the container of its
\* own team.
C17_OwnExecutive ==
    px.last.attached # NoValue => px.last.attached = px.last.team

\* C18: in proxy mode the node of a connection is nodes[hash(user_id) % n]: the
\* index is within the list, two connections with the same user_id get the
\* same node, and the first frame the node receives is the client's
\* Authenticate frame.
C18_NodeByUserId ==
    (px.last.mode = "proxy" /\ px.last.node # NoValue) =>
       /\ px.last.node[1] = BeMod(SHA256_8(px.last.team[1]), NUM_NODES, 0)
       /\ px.last.node[1] \in 0..(NUM_NODES - 1)
       /\ px.last.fail # "route" =>
             /\ Len(px.last.nodeframes) = 1
             /\ px.last.nodeframes[1] = px.last.req
       /\ (px.prev.mode = "proxy" /\ px.prev.node # NoValue /\ px.prev.team = px.last.team)
             => px.prev.node = px.last.node

\* two connections with different tokens of one user were forwarded, to the
\* same node
C18_Witness ==
    /\ px.last.mode = "proxy" /\ px.prev.mode = "proxy"
    /\ px.last.nodeframes = <<px.last.req>>
    /\ px.prev.nodeframes = <<px.prev.req>>
    /\ px.last.req # px.prev.req
    /\ px.last.team = px.prev.team
    /\ px.last.node = px.prev.node


(***************************************************************************)
(* SpecVm: the module VM, one syscall or one run at a time                 *)
(***************************************************************************)
\* guest memories: all zero, and all 0xcc as in tests::test_flag_read
VmMemories == {Zeros(MEM_SIZE), [k \in 1..MEM_SIZE |-> 204]}
\* path operands (see PathBytes), path sizes and destinations of file_read
VmPaths == 0..3
VmPathSizes == {0, 1, 3, 7, 8}
VmStoreAddrs == {0, MEM_SIZE - 1, MEM_SIZE}
\* syscall numbers a guest calls
VmSyscalls == {0, SYSCALL_FILE_READ, SYSCALL_SEND_MESSAGE, 99}

\* mov r1, 0; mov r2, 1; call n; exit
CallProgram(n) == <<OP_MOV, 1, 0, OP_MOV, 2, 1, OP_CALL, 0, n, OP_EXIT, 0, 0>>

VInit ==
    /\ DIdle
    /\ FwIdle
    /\ OIdle

\* a guest calls file_read(path, path_size, store_addr)
VmFileRead ==
    /\ ~vm.on
    /\ \E path \in VmPaths, path_size \in VmPathSizes, store_addr \in VmStoreAddrs,
          mem \in VmMemories :
          LET called(r) ==
                  vm' = [Vm_new EXCEPT
                            !.op = "file_read", !.path = path, !.path_size = path_size,
                            !.store_addr = store_addr, !.mem = mem,
                            !.res = [ok |-> r.ok, ret |-> r.ret, mem |-> r.mem,
                                     opened |-> r.opened, calls |-> 1,
                                     left |-> METER_START]]
          IN called(file_read(path, path_size, store_addr, mem))
    /\ UNCHANGED notVm

\* execute_bytes runs a program that makes one syscall
VmRun ==
    /\ ~vm.on
    /\ \E n \in VmSyscalls, mem \in VmMemories :
          LET ran(r) ==
                  vm' = [Vm_new EXCEPT
                            !.op = "run", !.code = CallProgram(n), !.mem = mem,
                            !.res = [ok |-> r.ok, ret |-> r.ret, mem |-> r.mem,
                                     opened |-> NoValue, calls |-> r.calls,
                                     left |-> r.left]]
          IN ran(execute_bytes(CallProgram(n), mem, FALSE))
    /\ UNCHANGED notVm

\* n - 1 times mov r0, 1, then exit: n instructions
StraightProgram(n) ==
    [k \in 1..(n * INSN_SIZE) |->
        IF k > (n - 1) * INSN_SIZE
        THEN (IF k % INSN_SIZE = 1 THEN OP_EXIT ELSE 0)
        ELSE IF k % INSN_SIZE = 1 THEN OP_MOV ELSE IF k % INSN_SIZE = 2 THEN 0 ELSE 1]

\* ja -1: an instruction that jumps to itself
LoopProgram == <<OP_JA, 0, 255>>
\* mov r2, 1; call file_read; ja -3: a loop around a syscall
LoopCallProgram == <<OP_MOV, 2, 1, OP_CALL, 0, SYSCALL_FILE_READ, OP_JA, 0, 253>>
\* ja +1; exit; ja -2: jumps forward and back, then leaves
JumpProgram == <<OP_JA, 0, 1, OP_EXIT, 0, 0, OP_JA, 0, 254>>

\* programs that never exit, and programs of METER_START - 1, METER_START and
\* METER_START + 1 instructions
LoopPrograms == {LoopProgram, LoopCallProgram}
MeterPrograms ==
    LoopPrograms \cup {JumpProgram}
        \cup {StraightProgram(METER_START + d) : d \in {-1, 0, 1}}

\* execute: a run starts with a fresh meter, at the first instruction
VmStart ==
    /\ ~vm.on
    /\ \E code \in MeterPrograms, mem \in VmMemories :
          vm' = [Vm_new EXCEPT
                    !.op = "meter", !.code = code, !.mem = mem, !.on = TRUE,
                    !.res = [ok |-> TRUE, ret |-> 0, mem |-> mem, opened |-> NoValue,
                             calls |-> 0, left |-> RadMeter_new]]
    /\ UNCHANGED notVm

\* the interpreter loop takes one turn: the run ends, or it is one
\* instruction further
VmStep ==
    /\ vm.on
    /\ LET turn(c) ==
               vm' = [vm EXCEPT
                         !.on = ~c.halt, !.pc = c.pc, !.r = c.r,
                         !.res = [ok |-> c.ok, ret |-> c.ret, mem |-> c.mem,
                                  opened |-> NoValue, calls |-> c.calls,
                                  left |-> c.left]]
       IN turn(Execute1(vm.code, vm.pc, vm.r, vm.res.mem, vm.res.left, vm.res.calls))
    /\ UNCHANGED notVm

VNext ==
    \/ VmFileRead
    \/ VmRun
    \/ VmStart
    \/ VmStep

SpecVm == VInit /\ [][VNext]_vars

\* the interpreter keeps running: a run that has begun takes its next turn
SpecVmLive == SpecVm /\ WF_vars(VmStep)

\* the path file_read assembles from its arguments
C19_Path ==
    IF vm.path_size < 8 THEN SubSeq(PathBytes(vm.path), 1, vm.path_size)
    ELSE PathBytes(vm.path)

\* the file's content is in guest memory at store_addr, the rest is as before
C19_Copied(data) ==
    /\ vm.res.ok
    /\ vm.res.ret = Len(data)
    /\ \A k \in 1..Len(vm.mem) :
          vm.res.mem[k] = IF k > vm.store_addr /\ k <= vm.store_addr + Len(data)
                          THEN data[k - vm.store_addr] ELSE vm.mem[k]

\* C19 as stated: file_read never opens a path that contains "rad"; for such a
\* path, for a path that is not UTF-8 and for a file that cannot be read it
\* returns 0 and leaves guest memory unchanged; otherwise it returns the number
\* of bytes copied to the destination.
C19_FileRead ==
    vm.op = "file_read" =>
       /\ Contains(C19_Path, STR_rad) => vm.res.opened = NoValue
       /\ IF Contains(C19_Path, STR_rad) \/ ~ValidUtf8(C19_Path)
             \/ ReadToString(C19_Path) = NoValue
          THEN vm.res.ok /\ vm.res.ret = 0 /\ vm.res.mem = vm.mem
          ELSE C19_Copied(ReadToString(C19_Path)[1])

\* C19, amended: when the file is read and the destination range does not lie
\* within guest memory, the call fails the run and leaves guest memory
\* unchanged.
C19_FileReadOrFault ==
    vm.op = "file_read" =>
       /\ Contains(C19_Path, STR_rad) => vm.res.opened = NoValue
       /\ IF Contains(C19_Path, STR_rad) \/ ~ValidUtf8(C19_Path)
             \/ ReadToString(C19_Path) = NoValue
          THEN vm.res.ok /\ vm.res.ret = 0 /\ vm.res.mem = vm.mem
          ELSE IF vm.store_addr + Len(ReadToString(C19_Path)[1]) > Len(vm.mem)
          THEN ~vm.res.ok /\ vm.res.mem = vm.mem
          ELSE C19_Copied(ReadToString(C19_Path)[1])

\* file_read was called with the path "rad", which names a readable file
C19_Witness ==
    /\ vm.op = "file_read"
    /\ C19_Path = STR_rad
    /\ ReadToString(C19_Path) # NoValue
    /\ vm.res.opened = NoValue
    /\ vm.res.ret = 0

\* C20: a run offers two syscalls, file_read and send_message; a call of one
\* of them does not fail the run, a call of any other number does.
C20_TwoSyscalls ==
    vm.op = "run" =>
       (vm.res.ok <=> vm.code[9] \in {SYSCALL_FILE_READ, SYSCALL_SEND_MESSAGE})


\* what holds of a run against the meter at every turn and at its end
C21_Safe ==
    vm.op = "meter" =>
       /\ vm.res.left \in 0..METER_START
       /\ ~vm.on =>
             /\ vm.code \in LoopPrograms => (~vm.res.ok /\ vm.res.left = 0)
             /\ vm.code = StraightProgram(METER_START + 1) => ~vm.res.ok
             /\ vm.code = StraightProgram(METER_START) => (vm.res.ok /\ vm.res.left = 0)
             /\ vm.code = StraightProgram(METER_START - 1)
                   => (vm.res.ok /\ vm.res.left = 1)
             /\ vm.code = JumpProgram => (vm.res.ok /\ vm.res.left = METER_START - 3)

\* C21: every run of a program ends; the meter starts at METER_START, every
\* executed instruction takes one unit, and a program that would execute more
\* than METER_START instructions ends with an error instead of going on.
C21_RunEnds == [](C21_Safe) /\ ((vm.on) ~> (~vm.on))

\* a program that loops around a syscall was run and stopped by the meter
C21_Witness ==
    /\ vm.op = "meter"
    /\ ~vm.on
    /\ vm.code = LoopCallProgram
    /\ ~vm.res.ok
    /\ vm.res.left = 0
    /\ vm.res.calls > 0

(***************************************************************************)
(* SpecScrub: the main loop with faults in every protected datum and no    *)
(* ground requests                                                         *)
(***************************************************************************)
\* repairs counted in one behaviour
MaxRepairs == 4

\* the words of State a fault is injected into: <<field, index, word>>
ScrubTargets ==
    {<<f, 0, k>> : f \in {"repairs", "restarts", "event_index", "timestamp", "message",
                          "updated", "enabled", "encoded"},
                   k \in 0..2}

\* the value of state.repairs as get() reads it (0 when it cannot be read)
RepairsRead(s) ==
    LET read(g) == IF g.ok THEN g.val[1] ELSE 0
    IN read(U64_get(s.repairs))

\* monitor.rs inject_faults, any protected datum
ScrubInject ==
    /\ fwup
    /\ nfaults < MaxFaults
    /\ \E t \in ScrubTargets : st' = flip(st, t)
    /\ nfaults' = nfaults + 1
    /\ gres' = GNone
    /\ UNCHANGED <<fwup, pc, now, last_report_ts, chkpt, execq, mg, lastAccept, nreqs,
                   nstarts>>
    /\ UNCHANGED <<dvars, ovars>>

\* the scrub pass of a tick, while the repairs counter is below MaxRepairs
ScrubPass ==
    /\ RepairsRead(st) < MaxRepairs
    /\ StepScrub

NextScrub ==
    \/ FwStart
    \/ StepModules
    \/ StepGroundEmpty
    \/ ScrubPass
    \/ ScrubInject
    \/ SvcCheckpoint

SpecScrub == Init /\ [][NextScrub]_vars

\* every protected datum of a state verifies
AllVerify(s) ==
    /\ U64_verify(s.repairs)
    /\ U64_verify(s.restarts)
    /\ U64_verify(s.event_index)
    /\ \A i \in EventIds : Event_verify(s.events[i])
    /\ \A i \in ModuleIds : Module_verify(s.modules[i])

\* the top-level data items of a state that fail verification
Failing(s) ==
    Cardinality({f \in {"repairs", "restarts", "event_index"} : ~U64_verify(s[f])})
        + Cardinality({i \in EventIds : ~Event_verify(s.events[i])})
        + Cardinality({i \in ModuleIds : ~Module_verify(s.modules[i])})

\* a scrub pass that returns successfully
ScrubPassed == fwup /\ pc = "scrub" /\ fwup' /\ pc' = "modules"

\* C22: after a scrub pass that returns successfully every protected datum
\* verifies, and state.repairs has grown by the number of top-level data
\* items that failed verification at the start of the pass (so a second pass
\* with no fault in between adds 0).
C22_ScrubRepairsAll ==
    [][ScrubPassed =>
          /\ AllVerify(st')
          /\ RepairsRead(st') = RepairsRead(st) + Failing(st)]_vars

\* C23: when the scrub pass of the main loop meets a datum that cannot be
\* repaired, the firmware process ends in that tick, with exit code 13.
C23_ScrubExit13 ==
    (gres.op = "scrub" /\ gres.err) => (~fwup /\ gres.exit = Some(EXIT_RESET))

(***************************************************************************)
(* SpecRestart: the firmware and the executive that starts it again, as    *)
(* often as it ends                                                        *)
(***************************************************************************)
\* restarts counted by the restarts counter in one behaviour
MaxRestarts == 2

\* the words a fault is injected into: the repairs and the restarts counter
RestartTargets == {<<f, 0, k>> : f \in {"repairs", "restarts"}, k \in 1..2}

\* the value of state.restarts as get() reads it (0 when it cannot be read)
RestartsRead(s) ==
    LET read(g) == IF g.ok THEN g.val[1] ELSE 0
    IN read(U64_get(s.restarts))

\* the state the next firmware process starts with
StartState ==
    LET loaded(l) == IF l.ok THEN l.s ELSE State_new
    IN IF chkpt = NoValue THEN State_new ELSE loaded(load_checkpoint(chkpt[1]))

\* the restarts counter would pass MaxRestarts
RestartCapped == RestartsRead(StartState) > MaxRestarts

\* monitor.rs inject_faults, while the firmware is in its sleep between ticks
RestartInject ==
    /\ fwup
    /\ pc = "modules"
    /\ nfaults < MaxFaults
    /\ \E t \in RestartTargets : st' = flip(st, t)
    /\ nfaults' = nfaults + 1
    /\ gres' = GNone
    /\ UNCHANGED <<fwup, pc, now, last_report_ts, chkpt, execq, mg, lastAccept, nreqs,
                   nstarts>>
    /\ UNCHANGED <<dvars, ovars>>

\* rad_exec main.rs: loop { execute_firmware().await }
FwRestart ==
    /\ ~RestartCapped
    /\ Start(FALSE)

NextRestart ==
    \/ FwRestart
    \/ Modules(FALSE)
    \/ StepGroundEmpty
    \/ StepScrub
    \/ RestartInject
    \/ SvcCheckpoint
    \/ ClockAdvance

\* the states in which the executive's loop can start a firmware process
RestartEnabled == ~fwup /\ Len(execq) < MaxQueue /\ ~RestartCapped

\* the executive's loop, the main loop of the firmware and the executive's
\* service task keep running: weak fairness of each of their steps, written
\* out with the step's enabling condition for the first three
SpecRestart ==
    /\ Init
    /\ [][NextRestart]_vars
    /\ ([]<>(~RestartEnabled) \/ []<><<FwRestart>>_vars)
    /\ ([]<>(~(fwup /\ pc = "modules")) \/ []<><<Modules(FALSE)>>_vars)
    /\ ([]<>(~(fwup /\ pc = "scrub")) \/ []<><<StepScrub>>_vars)
    /\ WF_vars(StepGroundEmpty)
    /\ WF_vars(SvcCheckpoint)

\* C24: once fault injection has stopped the system does not restart forever:
\* after finitely many restarts a firmware process passes its scrub and keeps
\* running (as long as the restarts counter stays within MaxRestarts).
C24_RestartsEnd == <>[](fwup) \/ <>[](RestartCapped)

(***************************************************************************)
(* SpecPersist: the executive persists a checkpoint while firmware         *)
(* processes end and start                                                 *)
(***************************************************************************)
\* std::fs::copy writes the file in at most two parts; the first part ends here
CopySplit(src) == Len(src) \div 2

\* service.rs 41-51: the request is read, written to the temporary file and
\* flushed; std::fs::copy opens rad.chkpt for writing, which truncates it
PersistOpen ==
    /\ execq # << >>
    /\ ~cp.on
    /\ cp' = [on |-> TRUE, src |-> Head(execq), at |-> 0]
    /\ execq' = Tail(execq)
    /\ chkpt' = Some(<< >>)
    /\ gres' = GNone
    /\ UNCHANGED <<st, fwup, pc, now, last_report_ts, mg, lastAccept, nfaults, nreqs,
                   nstarts>>
    /\ UNCHANGED <<dvars, ex, px, vm, sv, wd, ij>>

\* std::fs::copy moves the bytes into the file it opened; when a firmware
\* process has removed rad.chkpt meanwhile, the bytes go to the unlinked file
PersistWrite ==
    /\ cp.on
    /\ \E n \in {CopySplit(cp.src), Len(cp.src)} :
          /\ n > cp.at
          /\ cp' = IF n = Len(cp.src) THEN Copy_new ELSE [cp EXCEPT !.at = n]
          /\ chkpt' = IF chkpt = NoValue THEN NoValue ELSE Some(SubSeq(cp.src, 1, n))
    /\ gres' = GNone
    /\ UNCHANGED <<st, fwup, pc, now, last_report_ts, execq, mg, lastAccept, nfaults,
                   nreqs, nstarts>>
    /\ UNCHANGED <<dvars, ex, px, vm, sv, wd, ij>>

NextPersist ==
    \/ FwStart
    \/ StepModules
    \/ StepGroundEmpty
    \/ StepScrub
    \/ RestartInject
    \/ PersistOpen
    \/ PersistWrite
    \/ ClockAdvance

SpecPersist == Init /\ [][NextPersist]_vars

\* C25: a firmware process that opens rad.chkpt reads the complete byte string
\* of a Checkpoint request, never a partially written file, also when the
\* executive is persisting a checkpoint while the process starts.
C25_WholeCheckpoint ==
    (gres.op = "start" /\ gres.file # NoValue) => deserialize(gres.file[1]).ok

\* C26: every Checkpoint request the firmware sends is serialised from a state
\* in which every protected datum verifies: no injected bit flip is written
\* into a checkpoint unrepaired.
C26_CheckpointsVerify ==
    \A i \in 1..Len(execq) :
        LET sent(de) == de.ok /\ AllVerify(de.s)
        IN sent(deserialize(execq[i]))

\* the ground request of the last step was an EnableModule or UpdateModule and
\* its response has been released
ChangeAnswered ==
    /\ gres.op \in {"EnableModule", "UpdateModule"}
    /\ ~gres.err
    /\ gres.resp # NoResponse

\* the executive has replaced the content of rad.chkpt in this step
Persisted == chkpt' # NoValue /\ chkpt' # chkpt

Enabled(s, i) ==
    LET flag(e) == e.ok /\ e.val
    IN flag(is_enabled(s.modules[i]))

\* module i of state s is switched on: the value last written to its enabled
\* flag (the one its checksum was computed from) is nonzero
SwitchedOn(s, i) ==
    from_be_bytes(SubSeq(s.modules[i].enabled.checksum.pre, 1, 2 * U64_SHARD)) # 0

\* the step was the ground's EnableModule{enable=true} or an accepted
\* UpdateModule for module i, handled by the running firmware process
Granted(g, i) ==
    /\ g.req # << >>
    /\ g.req.id = i
    /\ \/ g.op = "EnableModule" /\ g.req.enable
       \/ g.op = "UpdateModule" /\ g.accepted

\* C28: a firmware process starts with every module switched off, whatever the
\* checkpoint contained; a module is switched on only by an EnableModule
\* {enable=true} or an accepted UpdateModule for it sent to that process; and
\* the main loop executes a module only if it was switched on, and read as
\* enabled, before the tick. So no module is executed after a start before the
\* ground has enabled it.
C28_NoRunBeforeGrant ==
    [][/\ \A i \in ModuleIds :
              SwitchedOn(st', i) => (fwup /\ (SwitchedOn(st, i) \/ Granted(gres', i)))
       /\ gres'.op = "modules" =>
              \A k \in 1..Len(gres'.runs) :
                  gres'.runs[k].ran => (SwitchedOn(st, k - 1) /\ Enabled(st, k - 1))]_vars

\* a restarted firmware process executes module 0 after the ground enabled it
C28_Witness ==
    /\ nstarts = 2
    /\ gres.op = "modules"
    /\ Len(gres.runs) = NUM_MODULES
    /\ gres.runs[1].ran
    /\ chkpt # NoValue

\* a tick of the main loop has run the modules (the process did not end in it)
Ticked(g) == g.op = "modules" /\ ~g.err

\* C29: a tick attempts every module, in index order; a module whose execution
\* returned an error is disabled at the end of the tick while the others were
\* still attempted; and a disabled module is not executed again before an
\* EnableModule{enable=true} or an accepted UpdateModule enables it.
C29_ErrorDisables ==
    [][/\ Ticked(gres') =>
              /\ Len(gres'.runs) = NUM_MODULES
              /\ \A k \in 1..Len(gres'.runs) :
                    /\ gres'.runs[k].pre.code = st.modules[k - 1].code
                    /\ gres'.runs[k].pre.signature = st.modules[k - 1].signature
                    /\ gres'.runs[k].ran => SwitchedOn(st, k - 1)
                    /\ ~gres'.runs[k].ok =>
                           LET off(e) == e.ok /\ ~e.val
                           IN /\ off(is_enabled(st'.modules[k - 1]))
                              /\ ~SwitchedOn(st', k - 1)
       /\ \A i \in ModuleIds :
              (~SwitchedOn(st, i) /\ SwitchedOn(st', i)) => Granted(gres', i)]_vars

\* the execution of module 0 returned an error in a tick that attempted all
\* modules
C29_Witness ==
    /\ Ticked(gres)
    /\ Len(gres.runs) = NUM_MODULES
    /\ ~gres.runs[1].ok
    /\ gres.runs[NUM_MODULES].ok
    /\ fwup
    /\ ~is_enabled(st.modules[0]).val

\* the event holds the message: what get() reads from it begins with the
\* message's bytes
Holds(e, message) ==
    LET begins(g) ==
            /\ g.ok
            /\ Len(g.val[1]) >= Len(message)
            /\ SubSeq(g.val[1], 1, Len(message)) = message
    IN begins(Bytes_get(e.message))

\* C30: a message passed to State.log is in the event log afterwards, whatever
\* its length: once an EnableModule request has been handled, an event holds
\* its outcome message.
C30_MessageStored ==
    (gres.op = "EnableModule" /\ ~gres.err /\ fwup) =>
        \E i \in EventIds :
            Holds(st.events[i],
                  STR_enable_module \o Decimal(gres.req.id)
                      \o (IF gres.resp.success THEN STR_success ELSE STR_failure))

(***************************************************************************)
(* The event log, the firmware's threads and the executive's environment   *)
(***************************************************************************)
\* the value of state.event_index as get() reads it (0 when it cannot be read)
EventIndexRead(s) ==
    LET read(g) == IF g.ok THEN g.val[1] ELSE 0
    IN read(U64_get(s.event_index))

\* C31: the event log is a ring: a log call writes the slot at event_index and
\* advances event_index by one modulo the number of slots. Handling an
\* EnableModule request logs exactly one message, so it advances the index by
\* one.
C31_RingAdvances ==
    [][(gres'.op = "EnableModule" /\ ~gres'.err /\ fwup /\ fwup')
           => EventIndexRead(st') = (EventIndexRead(st) + 1) % NUM_EVENTS]_vars

\* C32: every ControlResponse the control listener receives from the main loop
\* answers the request it sent last with the response variant of the same
\* name.
C32_ResponseMirrors ==
    (gres.req # << >> /\ gres.op = gres.req.kind /\ ~gres.err /\ gres.resp # NoResponse)
        => gres.resp.kind = gres.req.kind


(***************************************************************************)
(* Supervision: the executive's tasks (rad_exec main.rs, monitor.rs) and   *)
(* the threads of the firmware process it spawns (rad_fw control.rs,       *)
(* service.rs, main.rs).  sv.fw is the state of the firmware child,        *)
(* sv.exit its exit status, sv.prev the status of the child before it,     *)
(* sv.ctl and sv.prx the positions of the control-listener thread and of   *)
(* the executive-proxy thread, sv.err the last error a thread has met.     *)
(***************************************************************************)
MIN_ALTITUDE == 50
MAX_ALTITUDE == 300000

\* altitudes (km) and fuel masses on both sides of every limit
Altitudes == {MIN_ALTITUDE - 1, MIN_ALTITUDE, MAX_ALTITUDE, MAX_ALTITUDE + 1}
FuelMasses == {-1, 0, 1}
SimFailures == {"BOOM", "LOST CONTACT", "FUEL EXHAUSTED"}
ThreadErrors == {"bind", "accept", "read", "channel", "connect", "proxy"}

SInit ==
    /\ DIdle
    /\ FwIdle
    /\ OIdle

\* rad_fw reset(): std::process::exit(13)
reset_exit_main(s) == [s EXCEPT !.fw = "exited", !.exit = <<EXIT_MAIN>>]
reset(s) == [s EXCEPT !.fw = "exited", !.exit = <<EXIT_RESET>>]

\* process_requests, proxy_requests: an error of the thread's loop is logged
\* and the process is reset
thread_failed(s, kind) == reset([s EXCEPT !.err = kind])

\* monitor task: execute_firmware spawns the firmware and waits for it; the
\* task's loop spawns the next one once the child has exited
MonSpawn ==
    /\ sv.exec
    /\ sv.fw \in {"none", "exited"}
    /\ sv' = [sv EXCEPT !.fw = "run", !.prev = sv.exit, !.exit = NoValue,
                        !.ctl = "bind", !.prx = "connect", !.err = ""]
    /\ UNCHANGED notSv

\* do_process_requests: the socket file is removed and the listener bound
CtlBind(ok) ==
    /\ sv.fw = "run"
    /\ sv.ctl = "bind"
    /\ sv' = IF ok THEN [sv EXCEPT !.ctl = "accept"] ELSE thread_failed(sv, "bind")
    /\ UNCHANGED notSv

\* do_process_requests: accept; a failed accept is logged and the loop goes on
CtlAccept(ok) ==
    /\ sv.fw = "run"
    /\ sv.ctl = "accept"
    /\ sv' = IF ok THEN [sv EXCEPT !.ctl = "read"] ELSE [sv EXCEPT !.err = "accept"]
    /\ UNCHANGED notSv

\* do_process_requests: the frame is read, decoded and sent to the main loop
CtlRead(ok, sent) ==
    /\ sv.fw = "run"
    /\ sv.ctl = "read"
    /\ sv' = IF ~ok THEN thread_failed(sv, "read")
             ELSE IF ~sent THEN thread_failed(sv, "channel")
             ELSE [sv EXCEPT !.ctl = "wait"]
    /\ UNCHANGED notSv

\* do_process_requests: the response is received from the main loop, encoded
\* and written to the connection
CtlRespond(received, ok) ==
    /\ sv.fw = "run"
    /\ sv.ctl = "wait"
    /\ sv' = IF ~received THEN thread_failed(sv, "channel")
             ELSE IF ~ok THEN thread_failed(sv, "read")
             ELSE [sv EXCEPT !.ctl = "accept"]
    /\ UNCHANGED notSv

\* do_proxy_requests: the thread connects to the executive's service socket
PrxConnect(ok) ==
    /\ sv.fw = "run"
    /\ sv.prx = "connect"
    /\ sv' = IF ok THEN [sv EXCEPT !.prx = "recv"] ELSE thread_failed(sv, "connect")
    /\ UNCHANGED notSv

\* do_proxy_requests: one request of the main loop is written to the
\* executive and its response read back and handed to the main loop
PrxForward(ok) ==
    /\ sv.fw = "run"
    /\ sv.prx = "recv"
    /\ sv' = IF ok THEN sv ELSE thread_failed(sv, "proxy")
    /\ sv' # sv
    /\ UNCHANGED notSv

\* rad_fw main: execute returns with an error, main logs it and returns
FwMainReturn ==
    /\ sv.fw = "run"
    /\ sv' = [sv EXCEPT !.fw = "exited", !.exit = <<EXIT_MAIN>>]
    /\ UNCHANGED notSv

\* simulate_spacecraft: the failure conditions after one propagation step
failure(alt, fuel) ==
    IF alt < MIN_ALTITUDE THEN "BOOM"
    ELSE IF alt > MAX_ALTITUDE THEN "LOST CONTACT"
    ELSE IF fuel <= 0 THEN "FUEL EXHAUSTED"
    ELSE ""

\* rad_exec main: the arms of the match on simulate_spacecraft's result
main_loop_continue(s, result) ==
    IF result = "" THEN [s EXCEPT !.orbit = "kept"]
    ELSE [s EXCEPT !.sim = result]
main_loop(s, result) ==
    IF result = "" THEN [s EXCEPT !.orbit = "kept"]
    ELSE [s EXCEPT !.sim = result, !.exec = FALSE]

\* one step of the simulation: a failure returns Err to main; new burns
\* return Ok and main calls simulate_spacecraft again with the orbit reached
SimStep(alt, fuel, burns) ==
    /\ sv.exec
    /\ sv.sim = "run"
    /\ LET s == [sv EXCEPT !.alt = alt, !.fuel = fuel]
           result == failure(alt, fuel)
       IN sv' = IF result # "" \/ burns THEN main_loop(s, result) ELSE s
    /\ UNCHANGED notSv

\* control task: a ground connection is accepted
GroundAccept ==
    /\ sv.exec
    /\ sv.served # "ground"
    /\ sv' = [sv EXCEPT !.served = "ground"]
    /\ UNCHANGED notSv

\* service task: a request of the firmware's proxy thread is served
SvcServe ==
    /\ sv.exec
    /\ sv.fw = "run"
    /\ sv.prx = "recv"
    /\ sv.served # "service"
    /\ sv' = [sv EXCEPT !.served = "service"]
    /\ UNCHANGED notSv

NextSup ==
    \/ MonSpawn
    \/ \E ok \in BOOLEAN : CtlBind(ok)
    \/ \E ok \in BOOLEAN : CtlAccept(ok)
    \/ \E ok, sent \in BOOLEAN : CtlRead(ok, sent)
    \/ \E received, ok \in BOOLEAN : CtlRespond(received, ok)
    \/ \E ok \in BOOLEAN : PrxConnect(ok)
    \/ \E ok \in BOOLEAN : PrxForward(ok)
    \/ FwMainReturn
    \/ \E alt \in Altitudes, fuel \in FuelMasses, burns \in BOOLEAN : SimStep(alt, fuel, burns)
    \/ GroundAccept
    \/ SvcServe

\* the monitor task is scheduled by the executive's runtime as long as the
\* executive runs
SpecSup == SInit /\ [][NextSup]_vars /\ WF_vars(MonSpawn)

C40_ExecutiveSurvives == sv.sim \in SimFailures => sv.exec

\* C40: when the simulation reaches a failure condition the executive's main
\* function returns: from then on no ground connection is accepted, no
\* service request is served and no firmware process is spawned.
C40_FailureEndsExecutive ==
    /\ [](sv.sim \in SimFailures => ~sv.exec)
    /\ [][~sv.exec
              => (/\ sv'.exec = sv.exec /\ sv'.sim = sv.sim /\ sv'.served = sv.served
                  /\ (sv.fw # "run" => sv'.fw = sv.fw))]_vars

\* the simulation has failed for burn-up, loss of contact, or lack of fuel
C40_Witness == sv.sim \in SimFailures /\ ~sv.exec /\ sv.fw = "exited"


(***************************************************************************)
(* The software watchdog (rad_fw watchdog.rs) and the main loop's kick.    *)
(* Time is counted in ticks, TICKS_PER_SEC to the second: wd.age is the    *)
(* age of the main loop's timer (the time since its last kick), wd.nap the *)
(* time the watchdog thread has slept since its last poll, wd.gap the age  *)
(* the timer had when it was last kicked.                                  *)
(***************************************************************************)
WATCHDOG_TIMEOUT == 10
TICKS_PER_SEC == 2

\* ages are counted up to two seconds past the timeout
MaxAge == (WATCHDOG_TIMEOUT + 2) * TICKS_PER_SEC

\* Duration::as_secs: whole seconds
as_secs(ticks) == ticks \div TICKS_PER_SEC

\* do_watchdog: elapsed().as_secs() > WATCHDOG_TIMEOUT
expired_at_timeout(age) == as_secs(age) >= WATCHDOG_TIMEOUT
expired(age) == as_secs(age) > WATCHDOG_TIMEOUT

WInit ==
    /\ DIdle
    /\ FwIdle
    /\ OIdle

\* time passes; the watchdog thread sleeps one second between polls
WdTick ==
    /\ wd.up
    /\ wd.nap < TICKS_PER_SEC
    /\ wd' = [wd EXCEPT !.nap = @ + 1, !.age = IF @ < MaxAge THEN @ + 1 ELSE @]
    /\ UNCHANGED notWd

\* execute: the main loop starts an iteration and kicks the watchdog
WdKick ==
    /\ wd.up
    /\ wd' = [wd EXCEPT !.gap = wd.age, !.age = 0]
    /\ UNCHANGED notWd

\* do_watchdog: the poll after the sleep; an expired timer is an error, which
\* watchdog() logs before it resets the process
WdPoll ==
    /\ wd.up
    /\ wd.nap = TICKS_PER_SEC
    /\ wd' = IF expired(wd.age)
             THEN [wd EXCEPT !.up = FALSE, !.exit = <<EXIT_RESET>>]
             ELSE [wd EXCEPT !.nap = 0]
    /\ UNCHANGED notWd

\* the executive spawns the next firmware process
WdSpawn ==
    /\ ~wd.up
    /\ wd' = Wd_new
    /\ UNCHANGED notWd

NextWatchdog == WdTick \/ WdKick \/ WdPoll \/ WdSpawn

\* time passes and the watchdog thread is scheduled; the main loop may stall
SpecWatchdog == WInit /\ [][NextWatchdog]_vars /\ WF_vars(WdTick) /\ WF_vars(WdPoll)

\* the step is a poll of the watchdog
Polls == wd.up /\ wd.nap = TICKS_PER_SEC /\ (wd'.nap = 0 \/ ~wd'.up)
\* the step ends the process
Fires == wd.up /\ ~wd'.up /\ wd'.exit = <<EXIT_RESET>>

PAGE_SIZE == 4096
WORD_BITS == 64
WORD_BYTES == 8
DRAW_RANGE == 300
StatePages == 1
MaxInjections == 2
MaxStores == 1

\* State is aligned to a page, so its size is a whole number of pages
SizeOfState == StatePages * PAGE_SIZE
StateAddrs == {PAGE_SIZE, 3 * PAGE_SIZE}

\* offsets gen_range(state_addr..state_addr + state_size) may draw
Offsets == {0, 1, 8, 15, 16, SizeOfState - 9, SizeOfState - 1}
FaultBits == {0, 31, WORD_BITS - 1}
\* draws of gen_range(0..300) and values of the flux, in tenths
Draws == {0, 1, DRAW_RANGE - 1}
Fluxes == {0, 5, 10, 19, 20, 10 * DRAW_RANGE}
\* what the firmware's main thread stores
StoreValues == {{}, {0, 1}}

\* {:#?} of a pointer: 0x and the hexadecimal digits of the address
RECURSIVE HexDigits(_)
HexDigits(n) == IF n < 16 THEN <<HexDigit(n)>> ELSE HexDigits(n \div 16) \o <<HexDigit(n % 16)>>
fmt_ptr(p) == <<48, 120>> \o HexDigits(p)

\* u64::from_str_radix(s, 16)
RECURSIVE from_str_radix(_, _)
from_str_radix(s, acc) ==
    IF s = << >> THEN acc
    ELSE from_str_radix(Tail(s), 16 * acc + (IF s[1] >= 97 THEN s[1] - 87 ELSE s[1] - 48))

\* execute: the log line "loaded protected state at {ptr}-{ptr.add(1)}"
log_state(ptr) == [start |-> fmt_ptr(ptr), end |-> fmt_ptr(ptr + SizeOfState)]

\* inject_faults: state_addr and state_size from the captures of the regex
parse_state(line) ==
    LET addr == from_str_radix(SubSeq(line.start, 3, Len(line.start)), 0)
    IN [addr |-> addr, size |-> from_str_radix(SubSeq(line.end, 3, Len(line.end)), 0) - addr]

\* the flux as usize
as_usize(flux) == flux \div 10

\* gen_range(state_addr..state_addr + state_size) & !0x0f
fault_addr_unmasked(addr) == addr
fault_addr(addr) == addr - (addr % 16)

\* x[0] ^= 1 << fault_bit
toggle(x, bit) == (x \ {bit}) \cup ({bit} \ x)

word(mem, addr) == IF addr \in DOMAIN mem THEN mem[addr] ELSE {}
store(mem, addr, x) == [a \in DOMAIN mem \cup {addr} |-> IF a = addr THEN x ELSE mem[a]]

JInit ==
    /\ DIdle
    /\ FwIdle
    /\ OIdle

\* the firmware logs where its state is and the injector reads the line
InjStart(ptr) ==
    /\ ij.pc = "wait"
    /\ LET range == parse_state(log_state(ptr))
       IN ij' = [ij EXCEPT !.base = range.addr, !.size = range.size,
                           !.pc = IF range.addr # 0 THEN "sleep" ELSE "done"]
    /\ UNCHANGED notIj

\* after 100 ms: the flux is sampled, a number drawn and, when it is below
\* the flux, an address and a bit are drawn and the word is read
InjRead(r, flux, off, bit) ==
    /\ ij.pc = "sleep"
    /\ ij.n < MaxInjections
    /\ LET radiation == as_usize(flux)
           addr == fault_addr(ij.base + off)
       IN ij' = IF ~(r < radiation) THEN ij
                ELSE IF ~ij.alive THEN [ij EXCEPT !.pc = "done"]
                ELSE [ij EXCEPT !.pc = "read", !.addr = addr, !.bit = bit,
                                !.x = word(ij.mem, addr), !.stored = FALSE,
                                !.last = <<[r |-> r, flux |-> flux]>>]
    /\ ij' # ij
    /\ UNCHANGED notIj

\* the local copy has its bit flipped and is written back
InjWrite ==
    /\ ij.pc = "read"
    /\ LET x == toggle(ij.x, ij.bit)
       IN ij' = IF ~ij.alive THEN [ij EXCEPT !.pc = "done"]
                ELSE [ij EXCEPT !.pc = "sleep", !.n = @ + 1,
                                !.mem = store(@, ij.addr, x),
                                !.hit = @ \cup {ij.addr},
                                !.last = <<[r |-> ij.last[1].r, flux |-> ij.last[1].flux,
                                            addr |-> ij.addr, bit |-> ij.bit,
                                            read |-> ij.x, stored |-> ij.stored,
                                            before |-> word(ij.mem, ij.addr),
                                            after |-> x]>>]
    /\ UNCHANGED notIj

\* the firmware's main thread stores to a word of its state
FwStore(off, v) ==
    /\ ij.pc \in {"sleep", "read"}
    /\ ij.alive
    /\ ij.stores < MaxStores
    /\ off % WORD_BYTES = 0
    /\ LET addr == ij.base + off
       IN ij' = [ij EXCEPT !.mem = store(@, addr, v), !.stores = @ + 1,
                           !.stored = @ \/ (ij.pc = "read" /\ addr = ij.addr)]
    /\ UNCHANGED notIj

\* the firmware process ends
FwGone ==
    /\ ij.pc \in {"sleep", "read"}
    /\ ij.alive
    /\ ij' = [ij EXCEPT !.alive = FALSE]
    /\ UNCHANGED notIj

NextInject ==
    \/ \E ptr \in StateAddrs : InjStart(ptr)
    \/ \E r \in Draws, flux \in Fluxes, off \in Offsets, bit \in FaultBits :
          InjRead(r, flux, off, bit)
    \/ InjWrite
    \/ \E off \in Offsets, v \in StoreValues : FwStore(off, v)
    \/ FwGone

SpecInject == JInit /\ [][NextInject]_vars

\* an injection has been written back
Injected == ij.last # NoValue /\ DOMAIN ij.last[1] # {"r", "flux"}

\* C35: an injection writes back the word it has read with exactly one of its
\* 64 bits flipped; the word lies inside the range the firmware has reported;
\* a word is read only when the number drawn is below the sampled flux; the
\* injector writes nowhere else, and the range it uses is the firmware's.
C35_OneBitInRange ==
    /\ Injected =>
         LET l == ij.last[1]
         IN /\ l.after = toggle(l.read, l.bit)
            /\ Cardinality((l.after \ l.read) \cup (l.read \ l.after)) = 1
            /\ l.bit \in 0..(WORD_BITS - 1)
            /\ ij.base <= l.addr /\ l.addr + WORD_BYTES <= ij.base + ij.size
    /\ ij.last # NoValue
         => (ij.last[1].r \in 0..(DRAW_RANGE - 1) /\ 10 * ij.last[1].r < ij.last[1].flux)
    /\ \A a \in ij.hit : ij.base <= a /\ a + WORD_BYTES <= ij.base + ij.size
    /\ ij.pc # "wait" => (ij.base \in StateAddrs /\ ij.size = SizeOfState)

\* the last byte of the range has been drawn and the highest bit of the last
\* 16-byte block's first word flipped
C35_Witness ==
    /\ Injected
    /\ ij.last[1].addr = ij.base + ij.size - 16
    /\ ij.last[1].bit = WORD_BITS - 1
    /\ ij.n = MaxInjections

\* C36 as stated: the word after the write-back is the word as it was just
\* before the write-back with one bit toggled, so no store of the firmware's
\* main thread made since the injector's read is undone.
C36_NoLostStore ==
    Injected => ij.last[1].after = toggle(ij.last[1].before, ij.last[1].bit)


(***************************************************************************)
(* Firmware start with a checkpoint that does not load                     *)
(***************************************************************************)
\* the step is a start that found a checkpoint file and could not load it
LoadFailed == gres'.op = "start" /\ gres'.file # NoValue /\ ~gres'.loaded /\ ~fwup

\* State::new as the firmware sees it: both counters read 0, the modules
\* have no code and are switched off
Blank(s) ==
    /\ RepairsRead(s) = 0
    /\ RestartsRead(s) = 0
    /\ \A i \in ModuleIds : ~Enabled(s, i) /\ s.modules[i] = State_new.modules[i]

\* C37: a start that finds a checkpoint it cannot load removes the file,
\* takes the blank state and enters the main loop.
C37_BadCheckpointDropped ==
    [][LoadFailed => (chkpt' = NoValue /\ Blank(st') /\ fwup' /\ pc' = "modules")]_vars

\* the firmware runs on the blank state after a checkpoint has failed to load
C37_Witness ==
    /\ gres # << >> /\ gres.op = "start" /\ gres.file # NoValue /\ ~gres.loaded
    /\ fwup /\ chkpt = NoValue
    /\ ~deserialize(gres.file[1]).ok


(***************************************************************************)
(* Rejected updates                                                        *)
(***************************************************************************)
\* C38: a step that handles an UpdateModule request and does not accept it
\* (for another reason than an unrepairable datum) leaves the targeted module
\* as it was and the firmware in its main loop.
C38_RejectedUpdateHarmless ==
    [][(fwup /\ gres'.op = "UpdateModule" /\ ~gres'.accepted /\ gres'.errkind # "Repair")
           => (fwup' /\ gres'.post = gres'.pre)]_vars


(***************************************************************************)
(* Requests the executive answers itself                                   *)
(***************************************************************************)
LocalKinds == {"NoOp", "Reset", "Authenticate", "Disconnect"}

\* the requests on their way to the firmware: those handed to the proxy task
\* and the one written to the firmware's socket
Forwarded ==
    {ex.tx[k] : k \in 1..Len(ex.tx)} \cup (IF ex.preq = NoValue THEN {} ELSE {ex.preq[1]})

\* C39: NoOp, Reset, Authenticate and Disconnect are never forwarded: each is
\* answered at once, NoOp with NoOp, Reset with Reset{success = false},
\* Authenticate with its failure response and the end of the connection,
\* Disconnect with Disconnect and the end of the connection; and nothing
\* that is forwarded is of a kind the firmware rejects as invalid.
C39_AnsweredLocally ==
    /\ [](\A request \in Forwarded :
             request.kind \notin LocalKinds /\ ~invalid_control_message(request))
    /\ []((ex.req # NoValue /\ ex.req[1].kind \in LocalKinds) =>
             LET kind == ex.req[1].kind
             IN /\ ex.tries = 0 /\ ex.writes = 0 /\ ex.answered = NoValue
                /\ ex.pc = "read"
                /\ kind = "NoOp" => ex.got = <<Response("NoOp")>>
                /\ kind = "Reset"
                      => ex.got = <<[Response("Reset") EXCEPT !.success = FALSE]>>
                /\ kind = "Authenticate" => ex.got = <<AuthenticateResponse(FALSE, FALSE)>>
                /\ kind = "Disconnect" => ex.got = <<Response("Disconnect")>>)
    /\ [][(ex'.nreq # ex.nreq /\ ex'.req[1].kind \in LocalKinds)
              => (ex'.conn <=> ex'.req[1].kind \in {"NoOp", "Reset"})]_vars

\* a Reset has been answered on a connection over which an earlier request
\* had gone to the firmware
C39_Witness ==
    /\ ex.req = Some(Request("Reset"))
    /\ ex.got = <<[Response("Reset") EXCEPT !.success = FALSE]>>
    /\ ex.conn /\ ex.fw /\ ex.nreq = 2

=============================================================================
